---------------------------- MODULE Spec2Model ----------------------------
(***************************************************************************)
(* A model of the retrieval/formatting core of the MongoDB RAG agent:      *)
(*   - the Komga book-link cache (src/src/komga.py) and the formatter of   *)
(*     search results that resolves citations (src/src/agent.py),          *)
(*   - the think-block StreamFilter (src/src/response_filter.py) and the   *)
(*     streaming driver that feeds it (src/src/agent_runner.py),           *)
(*   - Reciprocal Rank Fusion and hybrid search (src/src/tools.py).        *)
(* Text is a sequence of one-character strings.  Each part of the program  *)
(* has its own specification (SpecStream, SpecRRF, SpecHybrid, SpecCite);  *)
(* a specification leaves the variables of the other parts at their        *)
(* initial values.                                                         *)
(***************************************************************************)
EXTENDS Integers, Sequences, FiniteSets, TLC

VARIABLES
    \* ---- streaming driver (stream_agent) ----
    s_pc,           \* "nodes" | "streaming" | "done": position in stream_agent
    requests,       \* model request nodes seen so far in this run
    input,          \* text the current model request has still to stream
    received,       \* text of the current model request streamed so far
    think_buffer,   \* stream_agent's think_buffer
    think_state,    \* stream_agent's think_state
    emitted,        \* text on_chunk has delivered for the current model request
    delivered,      \* all the text on_chunk has been given since the run began, in order
    response_text,  \* stream_agent's response_text
    final_output,   \* run.result.output: the text of the last model response
    response,       \* AgentResult.response once the run has returned
    \* ---- reciprocal_rank_fusion called on its own ----
    rrf_pc,         \* "call" | "returned"
    rrf_lists,      \* search_results_list: the ranked lists handed to the call
    rrf_out,        \* the merged list the call returned
    \* ---- hybrid_search ----
    h_pc,           \* "start" | "gather" | "fallback" | "done"
    h_match_count,  \* the match_count argument (None when not given)
    h_filter,       \* the source_filter argument ("None" when not given)
    vec_hits,       \* chunk ids the vector index ranks for the query, best first
    txt_hits,       \* chunk ids the text index ranks for the query, best first
    match_count,    \* hybrid_search's local match_count
    sem_status,     \* the semantic_search task: "idle" | "running" | "done"
                    \* ("done": it returned a list)
    sem_results,    \* what the semantic_search task returned
    txt_status,     \* the text_search task: "idle" | "running" | "done"
    txt_results,    \* what the text_search task returned
    h_calls,        \* the channel calls hybrid_search has made, in order
    h_path,         \* the return taken: "" | "both_empty" | "fused" | "fallback"
    h_result,       \* the list hybrid_search returned
    h_finished,     \* the channels in the order in which their tasks ended
    \* ---- KomgaClient (the book-link cache) and format_search_results ----
    k_configured,   \* KomgaClient.is_configured()
    k_cache,        \* KomgaClient._cache: filename -> book id
    k_disk,         \* the mapping stored in the cache file
    k_requests,     \* number of requests sent to the catalog so far
    f_pc,           \* format_search_results: "call" | "first_lookup" |
                    \* "page_lookup" | "done" (the lookups: awaiting the catalog)
    f_results,      \* its `results` argument
    f_sink,         \* its `state` argument is not None
    citation_map,   \* state.citation_map: <<source, page>> -> URL
    f_i,            \* index of the result the loop is at
    f_j,            \* index in page_numbers the inner loop is at
    f_link,         \* `url` of the result the loop is at
    f_parts,        \* the document headers appended to response_parts
    f_lookups,      \* how the first lookup of each result ended
    f_output,       \* what format_search_results returned
    o_pc,           \* a get_book_id call of another request: "idle" | "http" | "done"
    o_file,         \* its filename
    o_hit,          \* it found the filename in the cache
    o_answer,       \* how its catalog request ended
    o_result,       \* what it returned
    o_calls,        \* calls of get_book_id by other requests so far
    \* ---- the adapters (cli.py main, slack_bot.py handle_mention) ----
    a_adapter,      \* "cli" | "slack": the adapter the process runs
    a_pc,           \* "waiting" (for a question) | "agent" (answering one)
    a_requests,     \* questions taken so far
    a_tools,        \* search tool calls made while answering the current one
    \* ---- the handler of a failed agent run (utils/errors.py) ----
    e_pc,           \* "idle" | "raised" | "formatted" | "handled"
    e_error,        \* the exception: its class, HTTP status and message
    e_short,        \* short_msg of classify_llm_error
    e_retryable,    \* what is_retryable_error returned
    \* ---- linkify_citations (response_filter.py) ----
    l_pc,           \* "idle" | "given" | "linkified" | "twice"
    l_text,         \* the text linkify_citations is given
    l_map,          \* citation_map: (filename, page) -> URL
    l_client,       \* komga_client
    l_out,          \* what linkify_citations returned
    l_hits,         \* the citations of l_text it found a URL for
    l_out2,         \* what it returned when given l_out
    \* ---- markdown_to_slack (response_filter.py) ----
    m_pc,           \* "idle" | "given" | "converted"
    m_text,         \* the text markdown_to_slack is given
    m_out,          \* what it returned
    \* ---- KomgaClient.get_source_url_sync (komga.py) ----
    y_pc,           \* "idle" | "returned"
    y_file,         \* the filename of the last call
    y_page,         \* its page_number
    y_url,          \* what it returned
    \* ---- handle_mention (slack_bot.py): from the agent's result to the reply ----
    p_pc,           \* "idle" | "agent" (the agent run has returned) | "replied"
    p_response,     \* result.output: the text the agent generated
    p_map,          \* state.citation_map as the agent run left it
    p_said,         \* the text handed to say()
    \* ---- ConversationStore (conversation_store.py): one (channel, user) ----
    c_doc,          \* the document of the conversation: whether it exists, its messages
    c_pc,           \* per handler: "idle" | "saved" | "trimming" (between find_one
                    \* and update_one of trim_history)
    c_read,         \* per handler: the messages its trim_history has read
    c_sent,         \* messages handed to save_messages so far (they are numbered)
    c_saved         \* the messages whose save has completed, in that order

streamVars == <<s_pc, requests, input, received, think_buffer, think_state,
                emitted, delivered, response_text, final_output, response>>

rrfVars == <<rrf_pc, rrf_lists, rrf_out>>

hybridVars == <<h_pc, h_match_count, h_filter, vec_hits, txt_hits, match_count,
                sem_status, sem_results, txt_status, txt_results, h_calls,
                h_path, h_result, h_finished>>

citeVars == <<k_configured, k_cache, k_disk, k_requests, f_pc, f_results, f_sink,
              citation_map, f_i, f_j, f_link, f_parts, f_lookups, f_output,
              o_pc, o_file, o_hit, o_answer, o_result, o_calls>>

adapterVars == <<a_adapter, a_pc, a_requests, a_tools>>

errorVars == <<e_pc, e_error, e_short, e_retryable>>

linkVars == <<l_pc, l_text, l_map, l_client, l_out, l_hits, l_out2>>

markdownVars == <<m_pc, m_text, m_out>>

syncVars == <<y_pc, y_file, y_page, y_url>>

mentionVars == <<p_pc, p_response, p_map, p_said>>

storeVars == <<c_doc, c_pc, c_read, c_sent, c_saved>>

\* the state of the utilities: the error handler and the whole-text filters
utilVars == <<errorVars, linkVars, markdownVars, syncVars, mentionVars,
              storeVars>>

vars == <<streamVars, rrfVars, hybridVars, citeVars, adapterVars, utilVars>>

\* the state of the parts other than the streaming driver
notStreamVars == <<rrfVars, hybridVars, citeVars, adapterVars, utilVars>>

\* the state of the parts other than the fusion call
notRRFVars == <<streamVars, hybridVars, citeVars, adapterVars, utilVars>>

\* the state of the parts other than hybrid_search
notHybridVars == <<streamVars, rrfVars, citeVars, adapterVars, utilVars>>

\* the state of the parts other than the book-link cache and the formatter
notCiteVars == <<streamVars, rrfVars, hybridVars, adapterVars, utilVars>>

\* the state of the parts other than the adapters and the formatter their
\* requests call
notAdapterVars == <<streamVars, rrfVars, hybridVars, utilVars>>

\* the state of the parts other than the error handler
notErrorVars == <<streamVars, rrfVars, hybridVars, citeVars, adapterVars,
                  linkVars, markdownVars, syncVars, mentionVars, storeVars>>

\* the state of the parts other than linkify_citations
notLinkVars == <<streamVars, rrfVars, hybridVars, citeVars, adapterVars,
                 errorVars, markdownVars, syncVars, mentionVars, storeVars>>

\* the state of the parts other than the calls of get_source_url_sync
notSyncVars == <<streamVars, rrfVars, hybridVars, citeVars, adapterVars,
                 errorVars, linkVars, markdownVars, mentionVars, storeVars>>

\* the state of the parts other than the conversation store
notStoreVars == <<streamVars, rrfVars, hybridVars, citeVars, adapterVars,
                  errorVars, linkVars, markdownVars, syncVars, mentionVars>>

\* the state of the parts other than the reply of handle_mention
notMentionVars == <<streamVars, rrfVars, hybridVars, citeVars, adapterVars,
                    errorVars, linkVars, markdownVars, syncVars, storeVars>>

\* the state of the parts other than markdown_to_slack
notMarkdownVars == <<streamVars, rrfVars, hybridVars, citeVars, adapterVars,
                     errorVars, linkVars, syncVars, mentionVars, storeVars>>

-----------------------------------------------------------------------------
(* Bounds of the model *)

\* longest chunk one streaming event carries
MaxChunk == 3
\* most model request nodes in one agent run
MaxRequests == 2
\* chunks in the corpus (chunk ids are 1..NChunks)
NChunks == 3
\* longest ranked list handed to reciprocal_rank_fusion on its own
MaxHits == 3
\* settings.max_match_count as configured in the model (the code's default
\* is 50)
MaxMatchCount == 2
\* settings.default_match_count as configured in the model (the code's
\* default is 10)
DefaultMatchCount == 1
\* largest match_count a caller asks for
MaxAsk == 3
\* longest list of results handed to format_search_results
MaxResults == 2
\* most get_book_id calls other requests make while the formatter runs
MaxLookups == 1
\* most questions one adapter process takes
MaxQuestions == 2
\* most search tool calls the agent makes while answering one question
MaxToolCalls == 1
\* most pieces in the message of an exception
MaxPieces == 2
\* most fragments in a text given to linkify_citations
MaxFragments == 2
\* most items between the opening and the closing of a text given to
\* markdown_to_slack
MaxItems == 2
\* most fragments of a text the agent generates for a Slack mention
MaxParts == 2
\* handlers of mentions of one user in one channel that run at the same time
MaxHandlers == 2
\* most messages handed to save_messages in a run
MaxMessages == 5
\* keep_count of trim_history (50 in handle_mention), scaled down
KeepCount == 2

-----------------------------------------------------------------------------
(* Text helpers: Python str operations on sequences of characters *)

Min(a, b) == IF a <= b THEN a ELSE b

Max(a, b) == IF a >= b THEN a ELSE b

Take(s, n) == SubSeq(s, 1, Min(n, Len(s)))

Drop(s, n) == SubSeq(s, Min(n, Len(s)) + 1, Len(s))

\* '</think>'
CloseTag == <<"<", "/", "t", "h", "i", "n", "k", ">">>

\* '<think>'
OpenTag == <<"<", "t", "h", "i", "n", "k", ">">>

\* s[i:].startswith(p), i 1-indexed
MatchAt(s, p, i) ==
    /\ i >= 1
    /\ i + Len(p) - 1 <= Len(s)
    /\ SubSeq(s, i, i + Len(p) - 1) = p

Contains(s, p) == \E i \in 1..(Len(s) + 1) : MatchAt(s, p, i)

\* str.find: the 0-indexed position of the first occurrence of p in s, or -1
Find(s, p) ==
    IF Contains(s, p)
    THEN (CHOOSE i \in 1..(Len(s) + 1) :
             /\ MatchAt(s, p, i)
             /\ \A j \in 1..(i - 1) : ~MatchAt(s, p, j)) - 1
    ELSE -1

\* str.endswith
EndsWith(s, p) == Len(p) <= Len(s) /\ SubSeq(s, Len(s) - Len(p) + 1, Len(s)) = p

\* the characters str.strip() removes that the model's texts can hold
Whitespace == {" ", "\n"}

RECURSIVE LStrip(_)
LStrip(s) ==
    IF s # <<>> /\ Head(s) \in Whitespace THEN LStrip(Tail(s)) ELSE s

RECURSIVE RStrip(_)
RStrip(s) ==
    IF s # <<>> /\ s[Len(s)] \in Whitespace
    THEN RStrip(SubSeq(s, 1, Len(s) - 1))
    ELSE s

\* str.strip()
Strip(s) == RStrip(LStrip(s))

-----------------------------------------------------------------------------
(* StreamFilter: filter_think_streaming(chunk, buffer, state)              *)
(* returns (text_to_display, new_buffer, new_state)                        *)

\* the check for a partial '</think>' at the end of the text
\* (for suffix_len in range(1, len('</think>')))
EndsWithPartialTag(text) ==
    \E suffix_len \in 1..(Len(CloseTag) - 1) :
        EndsWith(text, SubSeq(CloseTag, 1, suffix_len))

\* a filter that gives up buffering once the text is longer than a threshold
filter_think_streaming_threshold(chunk, buffer, state) ==
    IF state = "normal"
    THEN [out |-> chunk, buffer |-> <<>>, state |-> "normal"]
    ELSE LET text == buffer \o chunk
             close_idx == Find(text, CloseTag)
         IN  IF close_idx # -1
             THEN [out |-> Drop(text, close_idx + Len(CloseTag)),
                   buffer |-> <<>>, state |-> "normal"]
             ELSE IF Len(text) > 4 /\ ~EndsWithPartialTag(text)
                  THEN [out |-> text, buffer |-> <<>>, state |-> "normal"]
                  ELSE [out |-> <<>>, buffer |-> text, state |-> "buffering"]

\* a filter that looks for the closing tag in the new chunk only
filter_think_streaming_chunk_only(chunk, buffer, state) ==
    IF state = "normal"
    THEN [out |-> chunk, buffer |-> <<>>, state |-> "normal"]
    ELSE LET text == buffer \o chunk
             close_idx == Find(chunk, CloseTag)
         IN  IF close_idx # -1
             THEN [out |-> Drop(chunk, close_idx + Len(CloseTag)),
                   buffer |-> <<>>, state |-> "normal"]
             ELSE [out |-> <<>>, buffer |-> text, state |-> "buffering"]

\* a filter that drops the buffered text when it ends in a partial tag
filter_think_streaming_drop_partial(chunk, buffer, state) ==
    IF state = "normal"
    THEN [out |-> chunk, buffer |-> <<>>, state |-> "normal"]
    ELSE LET text == buffer \o chunk
             close_idx == Find(text, CloseTag)
         IN  IF close_idx # -1
             THEN [out |-> Drop(text, close_idx + Len(CloseTag)),
                   buffer |-> <<>>, state |-> "normal"]
             ELSE IF EndsWithPartialTag(text)
                  THEN [out |-> <<>>, buffer |-> chunk, state |-> "buffering"]
                  ELSE [out |-> <<>>, buffer |-> text, state |-> "buffering"]

\* a filter that goes back to buffering at a '<' met in the normal state
filter_think_streaming_reopens(chunk, buffer, state) ==
    IF state = "normal"
    THEN LET open_idx == Find(chunk, <<"<">>)
         IN  IF open_idx # -1
             THEN [out |-> Take(chunk, open_idx), buffer |-> Drop(chunk, open_idx),
                   state |-> "buffering"]
             ELSE [out |-> chunk, buffer |-> <<>>, state |-> "normal"]
    ELSE LET text == buffer \o chunk
             close_idx == Find(text, CloseTag)
         IN  IF close_idx # -1
             THEN [out |-> Drop(text, close_idx + Len(CloseTag)),
                   buffer |-> <<>>, state |-> "normal"]
             ELSE [out |-> <<>>, buffer |-> text, state |-> "buffering"]

\* a filter that also removes a '</think>' from a chunk of the normal state
filter_think_streaming_strips_all(chunk, buffer, state) ==
    IF state = "normal"
    THEN LET close_idx == Find(chunk, CloseTag)
         IN  IF close_idx # -1
             THEN [out |-> Take(chunk, close_idx)
                              \o Drop(chunk, close_idx + Len(CloseTag)),
                   buffer |-> <<>>, state |-> "normal"]
             ELSE [out |-> chunk, buffer |-> <<>>, state |-> "normal"]
    ELSE LET text == buffer \o chunk
             close_idx == Find(text, CloseTag)
         IN  IF close_idx # -1
             THEN [out |-> Drop(text, close_idx + Len(CloseTag)),
                   buffer |-> <<>>, state |-> "normal"]
             ELSE [out |-> <<>>, buffer |-> text, state |-> "buffering"]

filter_think_streaming(chunk, buffer, state) ==
    IF state = "normal"
    THEN \* past any think block, output everything directly
         [out |-> chunk, buffer |-> <<>>, state |-> "normal"]
    ELSE LET text == buffer \o chunk
             close_idx == Find(text, CloseTag)
         IN  IF close_idx # -1
             THEN \* discard everything up to the tag, output the rest
                  [out |-> Drop(text, close_idx + Len(CloseTag)),
                   buffer |-> <<>>, state |-> "normal"]
             ELSE IF EndsWithPartialTag(text)
                  THEN [out |-> <<>>, buffer |-> text, state |-> "buffering"]
                  ELSE [out |-> <<>>, buffer |-> text, state |-> "buffering"]

-----------------------------------------------------------------------------
(* The streaming driver: stream_agent                                      *)

\* what a model request may stream: an optional lead, an optional closing
\* tag, an optional tail
StreamLeads == { <<>>, OpenTag \o <<"a">>, <<"a", "<", "/", "t">> }

StreamTails == { <<>>, <<" ", "b", " ">>, <<"b", "<", "/">>,
                 <<"b">> \o CloseTag \o <<"c">> }

ModelTexts ==
    { lead \o mid \o tail :
        lead \in StreamLeads, mid \in {<<>>, CloseTag}, tail \in StreamTails }

StreamInit ==
    /\ s_pc = "nodes"
    /\ requests = 0
    /\ input = <<>>
    /\ received = <<>>
    /\ think_buffer = <<>>
    /\ think_state = "buffering"
    /\ emitted = <<>>
    /\ delivered = <<>>
    /\ response_text = <<>>
    /\ final_output = <<>>
    /\ response = <<>>

\* Agent.is_model_request_node(node): reset the think state and open the
\* request's event stream
ModelRequestNode(text) ==
    /\ s_pc = "nodes"
    /\ requests < MaxRequests
    /\ s_pc' = "streaming"
    /\ requests' = requests + 1
    /\ input' = text
    /\ received' = <<>>
    /\ emitted' = <<>>
    /\ think_buffer' = <<>>
    /\ think_state' = "buffering"
    /\ final_output' = text
    /\ UNCHANGED <<delivered, response_text, response>>
    /\ UNCHANGED notStreamVars

\* a driver that hands on_chunk its text ahead of what it was given before
TextEvent_out_of_order(n) ==
    /\ s_pc = "streaming"
    /\ n <= Len(input)
    /\ LET chunk == Take(input, n)
           r == filter_think_streaming(chunk, think_buffer, think_state)
       IN  IF chunk # <<>>
           THEN /\ think_buffer' = r.buffer
                /\ think_state' = r.state
                /\ emitted' = IF r.out # <<>> THEN r.out \o emitted ELSE emitted
                /\ delivered' = IF r.out # <<>> THEN r.out \o delivered ELSE delivered
                /\ response_text' = response_text \o chunk
                /\ input' = Drop(input, n)
                /\ received' = received \o chunk
           ELSE UNCHANGED <<think_buffer, think_state, emitted, delivered,
                            response_text, input, received>>
    /\ UNCHANGED <<s_pc, requests, final_output, response>>
    /\ UNCHANGED notStreamVars

\* one PartStartEvent / PartDeltaEvent carrying the next n characters: the
\* filter once, `if filtered and on_chunk: on_chunk(filtered)` (the run has a
\* consumer), response_text += text
TextEvent(n) ==
    /\ s_pc = "streaming"
    /\ n <= Len(input)
    /\ LET chunk == Take(input, n)
           r == filter_think_streaming(chunk, think_buffer, think_state)
       IN  IF chunk # <<>>
           THEN /\ think_buffer' = r.buffer
                /\ think_state' = r.state
                /\ emitted' = IF r.out # <<>> THEN emitted \o r.out ELSE emitted
                /\ delivered' = IF r.out # <<>> THEN delivered \o r.out ELSE delivered
                /\ response_text' = response_text \o chunk
                /\ input' = Drop(input, n)
                /\ received' = received \o chunk
           ELSE UNCHANGED <<think_buffer, think_state, emitted, delivered,
                            response_text, input, received>>
    /\ UNCHANGED <<s_pc, requests, final_output, response>>
    /\ UNCHANGED notStreamVars

\* an end of stream that drops the buffer instead of flushing it
EndOfStream_no_flush ==
    /\ s_pc = "streaming"
    /\ input = <<>>
    /\ think_buffer' = <<>>
    /\ think_state' = "normal"
    /\ s_pc' = "nodes"
    /\ UNCHANGED <<requests, input, received, emitted, delivered, response_text,
                   final_output, response>>
    /\ UNCHANGED notStreamVars

\* the request's event stream ends: flush the buffer if no '</think>' came
EndOfStream ==
    /\ s_pc = "streaming"
    /\ input = <<>>
    /\ IF think_buffer # <<>> /\ think_state = "buffering"
       THEN /\ emitted' = emitted \o think_buffer
            /\ delivered' = delivered \o think_buffer
            /\ think_buffer' = <<>>
            /\ think_state' = "normal"
       ELSE UNCHANGED <<emitted, delivered, think_buffer, think_state>>
    /\ s_pc' = "nodes"
    /\ UNCHANGED <<requests, input, received, response_text, final_output, response>>
    /\ UNCHANGED notStreamVars

\* the run ends: response = response_text.strip() or final_output
EndNode ==
    /\ s_pc = "nodes"
    /\ requests >= 1
    /\ response' = IF Strip(response_text) # <<>> THEN Strip(response_text)
                   ELSE final_output
    /\ s_pc' = "done"
    /\ UNCHANGED <<requests, input, received, think_buffer, think_state,
                   emitted, delivered, response_text, final_output>>
    /\ UNCHANGED notStreamVars

\* a stream_agent with a `finally` that hands the buffer to on_chunk
Abort_flushes(how) ==
    /\ s_pc = "streaming"
    /\ s_pc' = how
    /\ emitted' = emitted \o think_buffer
    /\ delivered' = delivered \o think_buffer
    /\ think_buffer' = <<>>
    /\ response' = <<>>
    /\ UNCHANGED <<requests, input, received, think_state, response_text,
                   final_output>>
    /\ UNCHANGED notStreamVars

\* the event stream raises between two events.  An Exception ("failed") is
\* caught by the `except Exception` of stream_agent, which logs it and
\* returns AgentResult(response="", new_messages=[], error=...); a
\* cancellation ("cancelled", a BaseException) passes through it.  Neither
\* way is on_chunk called or think_buffer read again (it keeps here the value
\* the frame held when it was left).
Abort(how) ==
    /\ s_pc = "streaming"
    /\ s_pc' = how
    /\ response' = <<>>
    /\ UNCHANGED <<requests, input, received, think_buffer, think_state, emitted,
                   delivered, response_text, final_output>>
    /\ UNCHANGED notStreamVars

\* the sizes of the next text event: up to MaxChunk characters, or all the
\* text that is left
ChunkSizes == (0..MaxChunk) \cup {Len(input)}

StreamNext ==
    \/ \E text \in ModelTexts : ModelRequestNode(text)
    \/ \E n \in ChunkSizes : TextEvent(n)
    \/ EndOfStream
    \/ \E how \in {"failed", "cancelled"} : Abort(how)
    \/ EndNode


-----------------------------------------------------------------------------
(* SearchResult and Reciprocal Rank Fusion (src/src/tools.py)              *)

ChunkIds == 1..NChunks

\* document_source of the document that owns a chunk
SourceOf(id) == IF id % 2 = 1 THEN "GRR.pdf" ELSE "B.pdf"

\* the raw relevance score a channel gives the hit at 0-indexed rank r:
\* decreasing down the list, on a scale of the channel's own
ChannelScore(channel, r) == IF channel = "vector" THEN 1000 - r ELSE 500 - r

\* SearchResult(chunk_id, similarity, metadata, document_source).  metadata
\* is what the object was built from; document_id, content and
\* document_title are carried like it.
SearchResult(id, score, metadata) ==
    [chunk_id |-> id, similarity |-> score, metadata |-> metadata,
     document_source |-> SourceOf(id)]

\* the SearchResult list of a channel for a ranked list of chunk ids
ResultsOf(channel, ids) ==
    [i \in 1..Len(ids) |->
        SearchResult(ids[i], ChannelScore(channel, i - 1), <<channel, i - 1>>)]

\* k: the RRF constant (k=60)
RRF_K == 60

RECURSIVE Gcd(_, _)
Gcd(a, b) == IF b = 0 THEN a ELSE Gcd(b, a % b)

RECURSIVE LcmRange(_, _)
LcmRange(lo, hi) ==
    IF lo > hi THEN 1
    ELSE LET rest == LcmRange(lo + 1, hi)
         IN  (lo \div Gcd(lo, rest)) * rest

\* Scores are exact fractions written over one common denominator: the score
\* x is held as the integer x * RRFScale, RRFScale a common multiple of every
\* k + rank that occurs.  (The floats the code adds are the same fractions
\* rounded to 53 bits; at these ranks distinct sums differ by far more than
\* the rounding, so order and ties are those of the fractions.)
RRFScale == LcmRange(RRF_K, RRF_K + Max(NChunks, MaxHits))

\* a contribution computed from the 1-indexed rank
RRFContribution_one_indexed(k, rank) == RRFScale \div (k + rank + 1)

\* rrf_score = 1.0 / (k + rank)
RRFContribution(k, rank) == RRFScale \div (k + rank)

\* an accumulation that enters a chunk again each time it is met
RRFAccumulate_no_dedup(acc, result, rank, k) ==
    LET chunk_id == result.chunk_id
        rrf_score == RRFContribution(k, rank)
    IN  [order |-> Append(acc.order, chunk_id),
         rrf_scores |-> [acc.rrf_scores EXCEPT ![chunk_id] = @ + rrf_score],
         chunk_map |-> [acc.chunk_map EXCEPT ![chunk_id] = result]]

\* an accumulation that keeps the object a chunk was last seen as
RRFAccumulate_last_seen(acc, result, rank, k) ==
    LET chunk_id == result.chunk_id
        rrf_score == RRFContribution(k, rank)
    IN  IF \E i \in 1..Len(acc.order) : acc.order[i] = chunk_id
        THEN [acc EXCEPT !.rrf_scores[chunk_id] = @ + rrf_score,
                         !.chunk_map[chunk_id] = result]
        ELSE [order |-> Append(acc.order, chunk_id),
              rrf_scores |-> [acc.rrf_scores EXCEPT ![chunk_id] = rrf_score],
              chunk_map |-> [acc.chunk_map EXCEPT ![chunk_id] = result]]

\* the body of the loop over one result: acc holds rrf_scores (a dict: its
\* keys in insertion order, `order`, and their values) and chunk_map
RRFAccumulate(acc, result, rank, k) ==
    LET chunk_id == result.chunk_id
        rrf_score == RRFContribution(k, rank)
    IN  IF \E i \in 1..Len(acc.order) : acc.order[i] = chunk_id
        THEN [acc EXCEPT !.rrf_scores[chunk_id] = @ + rrf_score]
        ELSE [order |-> Append(acc.order, chunk_id),
              rrf_scores |-> [acc.rrf_scores EXCEPT ![chunk_id] = rrf_score],
              chunk_map |-> [acc.chunk_map EXCEPT ![chunk_id] = result]]

\* for rank, result in enumerate(results), from the 0-indexed rank `rank` on
RECURSIVE RRFOverResults(_, _, _, _)
RRFOverResults(acc, results, rank, k) ==
    IF rank >= Len(results) THEN acc
    ELSE RRFOverResults(RRFAccumulate(acc, results[rank + 1], rank, k),
                        results, rank + 1, k)

\* for results in search_results_list, from the list numbered n on
RECURSIVE RRFOverLists(_, _, _, _)
RRFOverLists(acc, search_results_list, n, k) ==
    IF n > Len(search_results_list) THEN acc
    ELSE RRFOverLists(RRFOverResults(acc, search_results_list[n], 0, k),
                      search_results_list, n + 1, k)

\* the empty rrf_scores and chunk_map
RRFEmpty ==
    [order |-> <<>>,
     rrf_scores |-> [id \in ChunkIds |-> 0],
     chunk_map |-> [id \in ChunkIds |-> SearchResult(id, 0, <<>>)]]

\* insert key x into the sorted list `sorted`, before the first key of a
\* strictly smaller score (so after every key of an equal one)
RECURSIVE InsertByScore(_, _, _)
InsertByScore(sorted, x, score) ==
    IF sorted = <<>> THEN <<x>>
    ELSE IF score[Head(sorted)] < score[x]
         THEN <<x>> \o sorted
         ELSE <<Head(sorted)>> \o InsertByScore(Tail(sorted), x, score)

\* a sort that puts a key before the keys of an equal score
RECURSIVE InsertByScore_before_ties(_, _, _)
InsertByScore_before_ties(sorted, x, score) ==
    IF sorted = <<>> THEN <<x>>
    ELSE IF score[Head(sorted)] <= score[x]
         THEN <<x>> \o sorted
         ELSE <<Head(sorted)>> \o InsertByScore_before_ties(Tail(sorted), x, score)

RECURSIVE SortFrom(_, _, _, _)
SortFrom(sorted, keys, i, score) ==
    IF i > Len(keys) THEN sorted
    ELSE SortFrom(InsertByScore(sorted, keys[i], score), keys, i + 1, score)

RECURSIVE SortFrom_before_ties(_, _, _, _)
SortFrom_before_ties(sorted, keys, i, score) ==
    IF i > Len(keys) THEN sorted
    ELSE SortFrom_before_ties(InsertByScore_before_ties(sorted, keys[i], score),
                              keys, i + 1, score)

\* a sort by score descending that reverses the order of equal scores
SortedByScoreDesc_unstable(keys, score) == SortFrom_before_ties(<<>>, keys, 1, score)

\* sorted(rrf_scores.items(), key=lambda x: x[1], reverse=True): by score
\* descending, stable (keys of equal score keep their dict order)
SortedByScoreDesc(keys, score) == SortFrom(<<>>, keys, 1, score)

reciprocal_rank_fusion(search_results_list, k) ==
    LET acc == RRFOverLists(RRFEmpty, search_results_list, 1, k)
        sorted_chunks == SortedByScoreDesc(acc.order, acc.rrf_scores)
    IN  [i \in 1..Len(sorted_chunks) |->
            LET result == acc.chunk_map[sorted_chunks[i]]
            IN  [result EXCEPT !.similarity = acc.rrf_scores[sorted_chunks[i]]]]

\* every list of at most n chunk ids
IdLists(n) == UNION { [1..len -> ChunkIds] : len \in 0..n }

RRFInit ==
    /\ rrf_pc = "call"
    /\ rrf_lists \in { <<ResultsOf("vector", a), ResultsOf("text", b)>> :
                          a \in IdLists(MaxHits), b \in IdLists(MaxHits) }
    /\ rrf_out = <<>>

RRFIdle ==
    /\ rrf_pc = "idle"
    /\ rrf_lists = <<>>
    /\ rrf_out = <<>>

\* the call reciprocal_rank_fusion(rrf_lists, k=60)
RRFCall ==
    /\ rrf_pc = "call"
    /\ rrf_out' = reciprocal_rank_fusion(rrf_lists, RRF_K)
    /\ rrf_pc' = "returned"
    /\ UNCHANGED rrf_lists
    /\ UNCHANGED notRRFVars

StreamIdle ==
    /\ s_pc = "idle"
    /\ requests = 0
    /\ input = <<>>
    /\ received = <<>>
    /\ think_buffer = <<>>
    /\ think_state = "buffering"
    /\ emitted = <<>>
    /\ delivered = <<>>
    /\ response_text = <<>>
    /\ final_output = <<>>
    /\ response = <<>>

-----------------------------------------------------------------------------
(* The search channels and hybrid_search (src/src/tools.py)                *)

\* the source_filter values of the model: none, or a regular expression
SourceFilters == {"None", "^GRR"}

\* {"$match": {"document_source": {"$regex": source_filter}}}
RegexMatches(pattern, source) ==
    CASE pattern = "^GRR" -> source = "GRR.pdf"
      [] OTHER -> FALSE

\* a pipeline without the $match stage on document_source
SourceFiltered_unfiltered(results, source_filter) == results

\* the $match stage appended to the pipeline when a source_filter is given
SourceFiltered(results, source_filter) ==
    IF source_filter # "None"
    THEN SelectSeq(results, LAMBDA r : RegexMatches(source_filter, r.document_source))
    ELSE results

\* Python's None as a match_count (match counts themselves are >= 0)
None == -1

\* if match_count is None: match_count = deps.settings.default_match_count
OrDefault(n) == IF n = None THEN DefaultMatchCount ELSE n

\* the channels' match_count = min(match_count, deps.settings.max_match_count)
ChannelClamp(n) == Min(n, MaxMatchCount)

\* semantic_search on a backend that answers: the top `limit` hits of the
\* vector index, the source filter, then [:match_count]
semantic_search(n, source_filter, hits) ==
    LET m == ChannelClamp(OrDefault(n))
        limit == IF source_filter # "None" THEN m * 3 ELSE m
        docs == SourceFiltered(ResultsOf("vector", Take(hits, limit)), source_filter)
    IN  Take(docs, m)

\* text_search on a backend that answers: the $limit stage, the source
\* filter, then [:match_count * 2]
text_search(n, source_filter, hits) ==
    LET m == ChannelClamp(OrDefault(n))
        limit == IF source_filter # "None" THEN m * 3 ELSE m * 2
        docs == SourceFiltered(ResultsOf("text", Take(hits, limit)), source_filter)
    IN  Take(docs, m * 2)

\* a hybrid_search that does not validate the match count
HybridClamp_none(n) == n

\* hybrid_search's match_count = min(match_count, deps.settings.max_match_count)
HybridClamp(n) == Min(n, MaxMatchCount)

\* every list of distinct chunk ids: a ranking an index can return
Rankings ==
    { ids \in UNION { [1..len -> ChunkIds] : len \in 0..NChunks } :
        \A i, j \in 1..Len(ids) : ids[i] = ids[j] => i = j }

HybridInit ==
    /\ h_pc = "start"
    /\ h_match_count \in {None} \cup (0..MaxAsk)
    /\ h_filter \in SourceFilters
    /\ vec_hits \in Rankings
    /\ txt_hits \in Rankings
    /\ match_count = h_match_count
    /\ sem_status = "idle"
    /\ sem_results = <<>>
    /\ txt_status = "idle"
    /\ txt_results = <<>>
    /\ h_calls = <<>>
    /\ h_path = ""
    /\ h_result = <<>>
    /\ h_finished = <<>>

HybridIdle ==
    /\ h_pc = "idle"
    /\ h_match_count = None
    /\ h_filter = "None"
    /\ vec_hits = <<>>
    /\ txt_hits = <<>>
    /\ match_count = None
    /\ sem_status = "idle"
    /\ sem_results = <<>>
    /\ txt_status = "idle"
    /\ txt_results = <<>>
    /\ h_calls = <<>>
    /\ h_path = ""
    /\ h_result = <<>>
    /\ h_finished = <<>>

\* a hybrid_search that awaits semantic_search before it calls text_search
HybridStart_one_at_a_time ==
    /\ h_pc = "start"
    /\ LET clamped == HybridClamp(OrDefault(match_count))
           fetch_count == clamped * 2
       IN  /\ match_count' = clamped
           /\ h_calls' = <<[channel |-> "semantic", match_count |-> fetch_count,
                            source_filter |-> h_filter]>>
    /\ sem_status' = "running"
    /\ h_pc' = "gather"
    /\ UNCHANGED <<h_match_count, h_filter, vec_hits, txt_hits, sem_results,
                   txt_status, txt_results, h_path, h_result>>
    /\ UNCHANGED h_finished
    /\ UNCHANGED notHybridVars

\* hybrid_search up to the await: default and clamp match_count, compute
\* fetch_count, and start both channels with asyncio.gather.  (The
\* statements before the gather read settings and take a min of integers;
\* they do not raise.)
HybridStart ==
    /\ h_pc = "start"
    /\ LET clamped == HybridClamp(OrDefault(match_count))
           fetch_count == clamped * 2
       IN  /\ match_count' = clamped
           /\ h_calls' = <<[channel |-> "semantic", match_count |-> fetch_count,
                            source_filter |-> h_filter],
                           [channel |-> "text", match_count |-> fetch_count,
                            source_filter |-> h_filter]>>
    /\ sem_status' = "running"
    /\ txt_status' = "running"
    /\ h_pc' = "gather"
    /\ UNCHANGED <<h_match_count, h_filter, vec_hits, txt_hits, sem_results,
                   txt_results, h_path, h_result>>
    /\ UNCHANGED h_finished
    /\ UNCHANGED notHybridVars

\* a semantic_search without its except clauses: a failure of the embedding
\* or of the aggregation leaves it as the exception of the task
SemanticSearchReturns_raises(ok) ==
    /\ h_pc = "gather"
    /\ sem_status = "running"
    /\ sem_results' = IF ok
                      THEN semantic_search(h_calls[1].match_count,
                                           h_calls[1].source_filter, vec_hits)
                      ELSE <<>>
    /\ sem_status' = IF ok THEN "done" ELSE "raised"
    /\ UNCHANGED <<h_pc, h_match_count, h_filter, vec_hits, txt_hits, match_count,
                   txt_status, txt_results, h_calls, h_path, h_result>>
    /\ h_finished' = Append(h_finished, "semantic")
    /\ UNCHANGED notHybridVars

\* the semantic_search task ends: with its results, or, when the embedding
\* or the aggregation raised, with the empty list of its except clauses
SemanticSearchReturns(ok) ==
    /\ h_pc = "gather"
    /\ sem_status = "running"
    /\ sem_results' = IF ok
                      THEN semantic_search(h_calls[1].match_count,
                                           h_calls[1].source_filter, vec_hits)
                      ELSE <<>>
    /\ sem_status' = "done"
    /\ UNCHANGED <<h_pc, h_match_count, h_filter, vec_hits, txt_hits, match_count,
                   txt_status, txt_results, h_calls, h_path, h_result>>
    /\ h_finished' = Append(h_finished, "semantic")
    /\ UNCHANGED notHybridVars

\* the text_search task ends: with its results, or with the empty list of
\* its except clauses
TextSearchReturns(ok) ==
    /\ h_pc = "gather"
    /\ txt_status = "running"
    /\ txt_results' = IF ok
                      THEN text_search(h_calls[2].match_count,
                                       h_calls[2].source_filter, txt_hits)
                      ELSE <<>>
    /\ txt_status' = "done"
    /\ UNCHANGED <<h_pc, h_match_count, h_filter, vec_hits, txt_hits, match_count,
                   sem_status, sem_results, h_calls, h_path, h_result>>
    /\ h_finished' = Append(h_finished, "text")
    /\ UNCHANGED notHybridVars

\* a gather that returns as soon as one task has come back empty, leaving
\* the other task's result out
HybridJoin_first_empty(raises) ==
    /\ h_pc = "gather"
    /\ \/ sem_status = "done" /\ sem_results = <<>>
       \/ txt_status = "done" /\ txt_results = <<>>
       \/ sem_status = "done" /\ txt_status = "done"
    /\ ~raises
    /\ IF sem_results = <<>> /\ txt_results = <<>>
       THEN /\ h_result' = <<>>
            /\ h_path' = "both_empty"
       ELSE /\ h_result' = Take(reciprocal_rank_fusion(<<sem_results, txt_results>>, RRF_K),
                                match_count)
            /\ h_path' = "fused"
    /\ h_pc' = "done"
    /\ UNCHANGED <<h_match_count, h_filter, vec_hits, txt_hits, match_count,
                   sem_status, sem_results, txt_status, txt_results, h_calls>>
    /\ UNCHANGED h_finished
    /\ UNCHANGED notHybridVars

\* a hybrid_search without the check for two empty lists: it goes on to the
\* fusion whatever the channels returned
HybridJoin_fuse_empty(raises) ==
    /\ h_pc = "gather"
    /\ sem_status = "done"
    /\ txt_status = "done"
    /\ IF raises
       THEN /\ h_pc' = "fallback"
            /\ UNCHANGED <<h_result, h_path>>
       ELSE /\ h_result' = Take(reciprocal_rank_fusion(<<sem_results, txt_results>>, RRF_K),
                                match_count)
            /\ h_path' = "fused"
            /\ h_pc' = "done"
    /\ UNCHANGED <<h_match_count, h_filter, vec_hits, txt_hits, match_count,
                   sem_status, sem_results, txt_status, txt_results, h_calls>>
    /\ UNCHANGED h_finished
    /\ UNCHANGED notHybridVars

\* a hybrid_search that takes the results as the tasks end (as with
\* asyncio.as_completed): the list of the channel that ended first comes
\* first
HybridJoin_as_completed(raises) ==
    /\ h_pc = "gather"
    /\ sem_status = "done"
    /\ txt_status = "done"
    /\ IF sem_results = <<>> /\ txt_results = <<>>
       THEN /\ ~raises
            /\ h_result' = <<>>
            /\ h_path' = "both_empty"
            /\ h_pc' = "done"
       ELSE IF raises
            THEN /\ h_pc' = "fallback"
                 /\ UNCHANGED <<h_result, h_path>>
            ELSE /\ h_result' =
                        Take(reciprocal_rank_fusion(
                                 IF h_finished[1] = "text"
                                 THEN <<txt_results, sem_results>>
                                 ELSE <<sem_results, txt_results>>, RRF_K),
                             match_count)
                 /\ h_path' = "fused"
                 /\ h_pc' = "done"
    /\ UNCHANGED <<h_match_count, h_filter, vec_hits, txt_hits, match_count,
                   sem_status, sem_results, txt_status, txt_results, h_calls>>
    /\ UNCHANGED h_finished
    /\ UNCHANGED notHybridVars

\* the gather returns, both tasks done.  Both lists empty: return [].
\* Otherwise fuse and return the top match_count; `raises`: an exception is
\* raised in this part (in the fusion, say), and the except clause of
\* hybrid_search takes over.  (No exception is raised on the way to
\* `return []`, which only tests the two lists and logs; and the
\* isinstance(..., Exception) tests find no exception, as the channels
\* return [] where they fail.)
HybridJoin(raises) ==
    /\ h_pc = "gather"
    /\ sem_status = "done"
    /\ txt_status = "done"
    /\ IF sem_results = <<>> /\ txt_results = <<>>
       THEN /\ ~raises
            /\ h_result' = <<>>
            /\ h_path' = "both_empty"
            /\ h_pc' = "done"
       ELSE IF raises
            THEN /\ h_pc' = "fallback"
                 /\ UNCHANGED <<h_result, h_path>>
            ELSE /\ h_result' = Take(reciprocal_rank_fusion(<<sem_results, txt_results>>, RRF_K),
                                     match_count)
                 /\ h_path' = "fused"
                 /\ h_pc' = "done"
    /\ UNCHANGED <<h_match_count, h_filter, vec_hits, txt_hits, match_count,
                   sem_status, sem_results, txt_status, txt_results, h_calls>>
    /\ UNCHANGED h_finished
    /\ UNCHANGED notHybridVars

\* an except clause that calls semantic_search without the source_filter
HybridFallback_unfiltered(ok) ==
    /\ h_pc = "fallback"
    /\ h_calls' = Append(h_calls, [channel |-> "semantic", match_count |-> match_count,
                                   source_filter |-> "None"])
    /\ h_result' = IF ok THEN semantic_search(match_count, "None", vec_hits)
                   ELSE <<>>
    /\ h_path' = "fallback"
    /\ h_pc' = "done"
    /\ UNCHANGED <<h_match_count, h_filter, vec_hits, txt_hits, match_count,
                   sem_status, sem_results, txt_status, txt_results>>
    /\ UNCHANGED h_finished
    /\ UNCHANGED notHybridVars

\* the except clause: return await semantic_search(ctx, query, match_count,
\* source_filter), which ends with its results or with the empty list
HybridFallback(ok) ==
    /\ h_pc = "fallback"
    /\ h_calls' = Append(h_calls, [channel |-> "semantic", match_count |-> match_count,
                                   source_filter |-> h_filter])
    /\ h_result' = IF ok THEN semantic_search(match_count, h_filter, vec_hits)
                   ELSE <<>>
    /\ h_path' = "fallback"
    /\ h_pc' = "done"
    /\ UNCHANGED <<h_match_count, h_filter, vec_hits, txt_hits, match_count,
                   sem_status, sem_results, txt_status, txt_results>>
    /\ UNCHANGED h_finished
    /\ UNCHANGED notHybridVars

HybridNext ==
    \/ HybridStart
    \/ \E ok \in BOOLEAN : SemanticSearchReturns(ok)
    \/ \E ok \in BOOLEAN : TextSearchReturns(ok)
    \/ \E raises \in BOOLEAN : HybridJoin(raises)
    \/ \E ok \in BOOLEAN : HybridFallback(ok)

-----------------------------------------------------------------------------
(* KomgaClient and format_search_results (src/src/komga.py,                *)
(* src/src/agent.py)                                                       *)

\* result.document_source.endswith(".pdf"), on the sources of the model
IsPdf(source) == source \in {"GRR.pdf", "B.pdf"}

\* None as a book id (falsy, like the empty string)
NoBook == ""

\* None as a page number (falsy, like 0)
NoPage == 0

\* get_page_url: f"{base_url}/book/{book_id}/read?page={page_number}"
get_page_url(book_id, page_number) == [book_id |-> book_id, page |-> page_number]

\* None as a URL
NoUrl == [book_id |-> NoBook, page |-> NoPage]

\* an empty dict
EmptyDict == [x \in {} |-> NoBook]

\* the dict d after d[key] = value
DictPut(d, key, value) ==
    [x \in (DOMAIN d) \cup {key} |-> IF x = key THEN value ELSE d[x]]

\* a book a catalog search lists: its id (possibly missing), and whether
\* the searched filename is contained in the book's name or url
Book(id, matches) == [id |-> id, matches |-> matches]

\* the lists of books a catalog search answers with in the model
BookLists ==
    { <<>>,
      <<Book("b1", FALSE)>>,
      <<Book("b1", TRUE)>>,
      <<Book(NoBook, TRUE), Book("b2", TRUE)>>,
      <<Book("b1", FALSE), Book("b2", TRUE)>>,
      <<Book("b1", TRUE), Book("b2", TRUE)>> }

\* what a catalog request comes to: a failure (network error, timeout, HTTP
\* error status), or a list of books
CatalogAnswers ==
    {[ok |-> FALSE, books |-> <<>>]} \cup { [ok |-> TRUE, books |-> b] : b \in BookLists }

\* the loop over the books of an answer: the id of the first book that
\* matches and has an id
MatchedId(books) ==
    LET hits == { n \in 1..Len(books) : books[n].matches /\ books[n].id # NoBook }
    IN  IF hits = {} THEN NoBook
        ELSE books[CHOOSE n \in hits : \A m \in hits : n <= m].id

\* a get_book_id that forgets a filename whose catalog request failed
LookupOutcome_evict(cache, disk, filename, answer, saved) ==
    LET id == IF answer.ok THEN MatchedId(answer.books) ELSE NoBook
        put == DictPut(cache, filename, id)
        less == [x \in (DOMAIN cache) \ {filename} |-> cache[x]]
    IN  IF id # NoBook
        THEN [cache |-> put,
              disk |-> IF saved THEN put ELSE disk,
              book_id |-> id,
              how |-> "found"]
        ELSE [cache |-> less, disk |-> disk, book_id |-> NoBook,
              how |-> IF answer.ok THEN "no_match" ELSE "error"]

\* a get_book_id whose _save_cache lets the failure of the write out: the
\* `except Exception` of get_book_id catches it and None is returned
LookupOutcome_save_raises(cache, disk, filename, answer, saved) ==
    LET id == IF answer.ok THEN MatchedId(answer.books) ELSE NoBook
        put == DictPut(cache, filename, id)
    IN  IF id # NoBook
        THEN IF saved
             THEN [cache |-> put, disk |-> put, book_id |-> id, how |-> "found"]
             ELSE [cache |-> put, disk |-> disk, book_id |-> NoBook, how |-> "error"]
        ELSE [cache |-> cache, disk |-> disk, book_id |-> NoBook,
              how |-> IF answer.ok THEN "no_match" ELSE "error"]

\* get_book_id from the answer of the catalog on: on a match
\* self._cache[filename] = book_id, then _save_cache() (`saved`: the write of
\* the cache file went through; _save_cache swallows a failure), and the id
\* is returned; otherwise None is returned
LookupOutcome(cache, disk, filename, answer, saved) ==
    LET id == IF answer.ok THEN MatchedId(answer.books) ELSE NoBook
        put == DictPut(cache, filename, id)
    IN  IF id # NoBook
        THEN [cache |-> put,
              disk |-> IF saved THEN put ELSE disk,
              book_id |-> id,
              how |-> "found"]
        ELSE [cache |-> cache, disk |-> disk, book_id |-> NoBook,
              how |-> IF answer.ok THEN "no_match" ELSE "error"]

\* get_source_url once get_book_id has returned: None without a book id,
\* else the link to the page (to page 1 without a page number)
get_source_url(book_id, page_number) ==
    IF book_id = NoBook THEN NoUrl
    ELSE IF page_number # NoPage THEN get_page_url(book_id, page_number)
    ELSE get_page_url(book_id, 1)

\* the results of the model: document_source and metadata["page_numbers"]
\* (empty: the chunk has none); title, content and similarity are carried
\* into the text as they are
FormatResults ==
    { [document_source |-> "GRR.pdf", page_numbers |-> <<42, 43, 44>>],
      [document_source |-> "GRR.pdf", page_numbers |-> <<7>>],
      [document_source |-> "B.pdf", page_numbers |-> <<>>],
      [document_source |-> "GMT.md", page_numbers |-> <<3>>] }

\* first_page = page_numbers[0] if page_numbers else None
FirstPage(result) ==
    IF result.page_numbers # <<>> THEN result.page_numbers[1] ELSE NoPage

\* the decimal digits as characters
Digit(d) ==
    CASE d = 0 -> "0" [] d = 1 -> "1" [] d = 2 -> "2" [] d = 3 -> "3" [] d = 4 -> "4"
      [] d = 5 -> "5" [] d = 6 -> "6" [] d = 7 -> "7" [] d = 8 -> "8" [] d = 9 -> "9"

RECURSIVE Str(_)
\* what an f-string makes of a page number: str(n), the decimal digits of n
Str(n) == IF n < 10 THEN <<Digit(n)>> ELSE Str(n \div 10) \o <<Digit(n % 10)>>

RECURSIVE JoinPages(_)
\* ", ".join(str(p) for p in page_numbers)
JoinPages(page_numbers) ==
    IF Len(page_numbers) = 1 THEN Str(page_numbers[1])
    ELSE Str(page_numbers[1]) \o <<", ">> \o JoinPages(Tail(page_numbers))

\* a page_info that lists every page of the result
PageInfo_enumerates(page_numbers) ==
    IF page_numbers = <<>> THEN <<>>
    ELSE IF Len(page_numbers) = 1
         THEN <<", page ">> \o Str(page_numbers[1])
         ELSE <<", pages ">> \o JoinPages(page_numbers)

\* page_info, as text (the fixed words as one piece each, the numbers digit
\* by digit): "" without page numbers, f", page {page_numbers[0]}" for one,
\* else f", pages {page_numbers[0]}-{page_numbers[-1]}"
PageInfo(page_numbers) ==
    IF page_numbers = <<>> THEN <<>>
    ELSE IF Len(page_numbers) = 1
         THEN <<", page ">> \o Str(page_numbers[1])
         ELSE <<", pages ">> \o Str(page_numbers[1]) \o <<"-">>
                  \o Str(page_numbers[Len(page_numbers)])

\* "No relevant information found."
NoInformation == [text |-> "No relevant information found.", n |-> 0, parts |-> <<>>]

\* "\n".join(response_parts): the "Found n relevant documents:" line and a
\* header (and the content) for each result
Formatted(n, parts) == [text |-> "Found n relevant documents:", n |-> n, parts |-> parts]

\* response_parts.append(...) for the result the loop is at, and on to the
\* next result
Emit(st, result, link) ==
    [st EXCEPT !.parts = Append(@, [source |-> result.document_source,
                                    page_info |-> PageInfo(result.page_numbers),
                                    source_link |-> link]),
               !.i = @ + 1,
               !.j = 0,
               !.link = NoUrl,
               !.pc = "loop"]

\* a formatter that enters the page loop but emits no header after it
AfterFirstLookup_first_only(st, result, url, how) ==
    LET st1 == [st EXCEPT !.lookups = Append(@, how)]
    IN  IF url # NoUrl /\ f_sink /\ result.page_numbers # <<>>
        THEN Emit([st1 EXCEPT !.cmap = DictPut(@, <<result.document_source,
                                                     result.page_numbers[1]>>, url)],
                  result, url)
        ELSE Emit(st1, result, url)

\* `if url:` after the first get_source_url of a result: with a URL, a
\* state and page numbers the loop over the pages starts; otherwise the
\* header is appended, with the link if there is a URL
AfterFirstLookup(st, result, url, how) ==
    LET st1 == [st EXCEPT !.lookups = Append(@, how)]
    IN  IF url # NoUrl /\ f_sink /\ result.page_numbers # <<>>
        THEN [st1 EXCEPT !.link = url, !.j = 1, !.pc = "pages"]
        ELSE Emit(st1, result, url)

\* `if page_url:` after the get_source_url of a page: the entry is recorded
AfterPageLookup(st, result, page_url) ==
    [st EXCEPT !.cmap = IF page_url # NoUrl
                        THEN DictPut(@, <<result.document_source,
                                          result.page_numbers[st.j]>>, page_url)
                        ELSE @,
               !.j = @ + 1,
               !.pc = "pages"]

\* format_search_results from a point of its loop up to the next await that
\* suspends it (a get_book_id that has to ask the catalog) or to its return.
\* A get_book_id that finds the filename in the cache returns without
\* suspending, so no other coroutine runs in between and the cache is the
\* same throughout.
RECURSIVE FormatRun(_, _)
FormatRun(st, cache) ==
    IF st.i > Len(f_results) THEN [st EXCEPT !.pc = "done"]
    ELSE LET result == f_results[st.i]
             source == result.document_source
         IN  IF st.pc = "loop"
             THEN IF IsPdf(source) /\ k_configured
                  THEN IF source \in DOMAIN cache
                       THEN FormatRun(AfterFirstLookup(st, result,
                                          get_source_url(cache[source], FirstPage(result)),
                                          "cached"),
                                      cache)
                       ELSE [st EXCEPT !.pc = "first_lookup"]
                  ELSE FormatRun(Emit([st EXCEPT !.lookups = Append(@, "skipped")],
                                      result, NoUrl),
                                 cache)
             ELSE IF st.j > Len(result.page_numbers)
                  THEN FormatRun(Emit(st, result, st.link), cache)
                  ELSE IF source \in DOMAIN cache
                       THEN FormatRun(AfterPageLookup(st, result,
                                          get_source_url(cache[source],
                                                         result.page_numbers[st.j])),
                                      cache)
                       ELSE [st EXCEPT !.pc = "page_lookup"]

\* the filenames other requests look up: the PDF the formatter's results
\* cite most
LookupFiles == {"GRR.pdf"}

\* the lists of results handed to the formatter
ResultLists == UNION { [1..n -> FormatResults] : n \in 0..MaxResults }

\* an entry left in a citation map by an earlier call
StaleMap == DictPut(EmptyDict, <<"B.pdf", 9>>, get_page_url("b1", 9))

\* the cache starts empty or with GRR.pdf, and with B.pdf where the map
\* holds the entry of an earlier call for it (the book id of an entry is
\* one the cache held when the entry was written, and the cache drops
\* nothing)
CiteInit ==
    /\ k_configured \in BOOLEAN
    /\ citation_map \in {EmptyDict, StaleMap}
    /\ k_cache \in { IF citation_map = StaleMap THEN DictPut(cache, "B.pdf", "b1")
                      ELSE cache :
                      cache \in {EmptyDict, DictPut(EmptyDict, "GRR.pdf", "b1")} }
    /\ k_disk = k_cache
    /\ k_requests = 0
    /\ f_pc = "call"
    /\ f_results \in ResultLists
    /\ f_sink \in BOOLEAN
    /\ f_i = 0
    /\ f_j = 0
    /\ f_link = NoUrl
    /\ f_parts = <<>>
    /\ f_lookups = <<>>
    /\ f_output = [text |-> "", n |-> 0, parts |-> <<>>]
    /\ o_pc = "idle"
    /\ o_file = ""
    /\ o_hit = FALSE
    /\ o_answer = ""
    /\ o_result = NoBook
    /\ o_calls = 0

CiteIdle ==
    /\ k_configured = FALSE
    /\ k_cache = EmptyDict
    /\ k_disk = EmptyDict
    /\ k_requests = 0
    /\ f_pc = "idle"
    /\ f_results = <<>>
    /\ f_sink = FALSE
    /\ citation_map = EmptyDict
    /\ f_i = 0
    /\ f_j = 0
    /\ f_link = NoUrl
    /\ f_parts = <<>>
    /\ f_lookups = <<>>
    /\ f_output = [text |-> "", n |-> 0, parts |-> <<>>]
    /\ o_pc = "idle"
    /\ o_file = ""
    /\ o_hit = FALSE
    /\ o_answer = ""
    /\ o_result = NoBook
    /\ o_calls = 0

\* the formatter stops at st: suspended on a catalog request (the request
\* is sent), or returned
FormatStop(st) ==
    /\ f_pc' = st.pc
    /\ f_i' = st.i
    /\ f_j' = st.j
    /\ f_link' = st.link
    /\ f_parts' = st.parts
    /\ f_lookups' = st.lookups
    /\ citation_map' = st.cmap
    /\ f_output' = IF st.pc = "done" THEN Formatted(Len(f_results), st.parts)
                   ELSE f_output
    /\ k_requests' = IF st.pc = "done" THEN k_requests ELSE k_requests + 1

\* a formatter that asks the client for a link before it looks at the list
FormatCall_lookup_first ==
    /\ f_pc = "call"
    /\ IF f_results = <<>>
       THEN /\ f_output' = NoInformation
            /\ f_pc' = "done"
            /\ k_requests' = k_requests + 1
            /\ UNCHANGED <<f_i, f_j, f_link, f_parts, f_lookups, citation_map>>
       ELSE FormatStop(FormatRun([pc |-> "loop", i |-> 1, j |-> 0, link |-> NoUrl,
                                  parts |-> <<>>, lookups |-> <<>>,
                                  cmap |-> citation_map], k_cache))
    /\ UNCHANGED <<k_configured, k_cache, k_disk, f_results, f_sink,
                   o_pc, o_file, o_hit, o_answer, o_result, o_calls>>
    /\ UNCHANGED notCiteVars

\* format_search_results(results, state) is called: the fixed message for
\* no results, else the loop over the results up to its first suspension
FormatCall ==
    /\ f_pc = "call"
    /\ IF f_results = <<>>
       THEN /\ f_output' = NoInformation
            /\ f_pc' = "done"
            /\ UNCHANGED <<k_requests, f_i, f_j, f_link, f_parts, f_lookups,
                           citation_map>>
       ELSE FormatStop(FormatRun([pc |-> "loop", i |-> 1, j |-> 0, link |-> NoUrl,
                                  parts |-> <<>>, lookups |-> <<>>,
                                  cmap |-> citation_map], k_cache))
    /\ UNCHANGED <<k_configured, k_cache, k_disk, f_results, f_sink,
                   o_pc, o_file, o_hit, o_answer, o_result, o_calls>>
    /\ UNCHANGED notCiteVars

\* the catalog request of the formatter's get_book_id ends: get_book_id and
\* get_source_url return, and the loop goes on to its next suspension
FormatResume(answer, saved) ==
    /\ f_pc \in {"first_lookup", "page_lookup"}
    /\ LET result == f_results[f_i]
           out == LookupOutcome(k_cache, k_disk, result.document_source, answer, saved)
           st0 == [pc |-> f_pc, i |-> f_i, j |-> f_j, link |-> f_link,
                   parts |-> f_parts, lookups |-> f_lookups, cmap |-> citation_map]
           st1 == IF f_pc = "first_lookup"
                  THEN AfterFirstLookup(st0, result,
                           get_source_url(out.book_id, FirstPage(result)), out.how)
                  ELSE AfterPageLookup(st0, result,
                           get_source_url(out.book_id, result.page_numbers[f_j]))
       IN  /\ k_cache' = out.cache
           /\ k_disk' = out.disk
           /\ FormatStop(FormatRun(st1, out.cache))
    /\ UNCHANGED <<k_configured, f_results, f_sink,
                   o_pc, o_file, o_hit, o_answer, o_result, o_calls>>
    /\ UNCHANGED notCiteVars

\* a get_book_id that asks the catalog whatever the cache holds
LookupCall_always_asks(filename) ==
    /\ k_configured
    /\ o_pc \in {"idle", "done"}
    /\ o_calls < MaxLookups
    /\ o_calls' = o_calls + 1
    /\ o_file' = filename
    /\ o_answer' = ""
    /\ o_pc' = "http"
    /\ o_hit' = (filename \in DOMAIN k_cache)
    /\ o_result' = NoBook
    /\ k_requests' = k_requests + 1
    /\ UNCHANGED <<k_configured, k_cache, k_disk, f_pc, f_results, f_sink,
                   citation_map, f_i, f_j, f_link, f_parts, f_lookups, f_output>>
    /\ UNCHANGED notCiteVars

\* another request's formatter calls get_source_url, and so
\* get_book_id(filename), for a PDF source; like this one it does so only
\* on a configured client (agent.py: `and komga.is_configured()`), so
\* get_book_id's own test of is_configured passes.  The cached id is
\* returned when the filename is in the cache, else the request to the
\* catalog is sent and the call is suspended
LookupCall(filename) ==
    /\ k_configured
    /\ o_pc \in {"idle", "done"}
    /\ o_calls < MaxLookups
    /\ o_calls' = o_calls + 1
    /\ o_file' = filename
    /\ o_answer' = ""
    /\ IF filename \in DOMAIN k_cache
       THEN /\ o_pc' = "done"
            /\ o_hit' = TRUE
            /\ o_result' = k_cache[filename]
            /\ UNCHANGED k_requests
       ELSE /\ o_pc' = "http"
            /\ o_hit' = FALSE
            /\ o_result' = NoBook
            /\ k_requests' = k_requests + 1
    /\ UNCHANGED <<k_configured, k_cache, k_disk, f_pc, f_results, f_sink,
                   citation_map, f_i, f_j, f_link, f_parts, f_lookups, f_output>>
    /\ UNCHANGED notCiteVars

\* the catalog request of that call ends, and get_book_id returns
LookupResume(answer, saved) ==
    /\ o_pc = "http"
    /\ LET out == LookupOutcome(k_cache, k_disk, o_file, answer, saved)
       IN  /\ k_cache' = out.cache
           /\ k_disk' = out.disk
           /\ o_result' = out.book_id
           /\ o_answer' = out.how
    /\ o_pc' = "done"
    /\ UNCHANGED <<k_configured, k_requests, o_file, o_hit, o_calls, f_pc, f_results,
                   f_sink, citation_map, f_i, f_j, f_link, f_parts, f_lookups,
                   f_output>>
    /\ UNCHANGED notCiteVars

CiteNext ==
    \/ FormatCall
    \/ \E answer \in CatalogAnswers, saved \in BOOLEAN : FormatResume(answer, saved)
    \/ \E filename \in LookupFiles : LookupCall(filename)
    \/ \E answer \in CatalogAnswers, saved \in BOOLEAN : LookupResume(answer, saved)

-----------------------------------------------------------------------------
(* The adapters: the request loop of the CLI (src/src/cli.py main) and the *)
(* mention handler of the Slack bot (src/src/slack_bot.py), each handing   *)
(* a RAGState to the agent, whose search tools hand it to                  *)
(* format_search_results (src/src/agent.py)                                *)

\* a cache that holds both PDFs of the model, so that no lookup of these
\* runs has to ask the catalog
FullCache == DictPut(DictPut(EmptyDict, "GRR.pdf", "b1"), "B.pdf", "b2")

\* the adapter has started.  CLI: main() has executed state = RAGState()
\* and deps = StateDeps[RAGState](state=state), and is at its loop.  Slack:
\* the handler is registered; no RAGState exists yet
AdapterInit ==
    /\ a_adapter \in {"cli", "slack"}
    /\ a_pc = "waiting"
    /\ a_requests = 0
    /\ a_tools = 0
    /\ k_configured = TRUE
    /\ k_cache = FullCache
    /\ k_disk = FullCache
    /\ k_requests = 0
    /\ f_pc = "idle"
    /\ f_results = <<>>
    /\ f_sink = TRUE
    /\ citation_map = EmptyDict
    /\ f_i = 0
    /\ f_j = 0
    /\ f_link = NoUrl
    /\ f_parts = <<>>
    /\ f_lookups = <<>>
    /\ f_output = [text |-> "", n |-> 0, parts |-> <<>>]
    /\ o_pc = "idle"
    /\ o_file = ""
    /\ o_hit = FALSE
    /\ o_answer = ""
    /\ o_result = NoBook
    /\ o_calls = 0

AdapterIdle ==
    /\ a_adapter = ""
    /\ a_pc = "idle"
    /\ a_requests = 0
    /\ a_tools = 0

\* the formatter's variables as they are before a call of the formatter
FormatterReset ==
    /\ f_i' = 0
    /\ f_j' = 0
    /\ f_link' = NoUrl
    /\ f_parts' = <<>>
    /\ f_lookups' = <<>>
    /\ f_output' = [text |-> "", n |-> 0, parts |-> <<>>]

\* the CLI takes a question: stream_agent_interaction(user_input,
\* message_history, deps), with the deps (and the RAGState in it) that
\* main() created before its loop
CliQuestion ==
    /\ a_adapter = "cli"
    /\ a_pc = "waiting"
    /\ a_requests < MaxQuestions
    /\ a_requests' = a_requests + 1
    /\ a_tools' = 0
    /\ a_pc' = "agent"
    /\ f_pc' = "idle"
    /\ UNCHANGED citation_map
    /\ UNCHANGED <<a_adapter, k_configured, k_cache, k_disk, k_requests, f_results,
                   f_sink, f_i, f_j, f_link, f_parts, f_lookups, f_output,
                   o_pc, o_file, o_hit, o_answer, o_result, o_calls>>
    /\ UNCHANGED notAdapterVars

\* the Slack bot handles a mention: state = RAGState(), deps =
\* StateDeps[RAGState](state=state), rag_agent.run(query, deps=deps, ...)
SlackMention ==
    /\ a_adapter = "slack"
    /\ a_pc = "waiting"
    /\ a_requests < MaxQuestions
    /\ a_requests' = a_requests + 1
    /\ a_tools' = 0
    /\ a_pc' = "agent"
    /\ f_pc' = "idle"
    /\ citation_map' = EmptyDict
    /\ UNCHANGED <<a_adapter, k_configured, k_cache, k_disk, k_requests, f_results,
                   f_sink, f_i, f_j, f_link, f_parts, f_lookups, f_output,
                   o_pc, o_file, o_hit, o_answer, o_result, o_calls>>
    /\ UNCHANGED notAdapterVars

\* the agent calls a search tool, which ends with
\* format_search_results(results, ctx.deps.state)
SearchTool(results) ==
    /\ a_pc = "agent"
    /\ f_pc \in {"idle", "done"}
    /\ a_tools < MaxToolCalls
    /\ a_tools' = a_tools + 1
    /\ f_results' = results
    /\ f_sink' = TRUE
    /\ f_pc' = "call"
    /\ FormatterReset
    /\ UNCHANGED <<a_adapter, a_pc, a_requests, k_configured, k_cache, k_disk,
                   k_requests, citation_map, o_pc, o_file, o_hit, o_answer, o_result,
                   o_calls>>
    /\ UNCHANGED notAdapterVars

\* the agent run ends and the adapter has delivered the answer
Answered ==
    /\ a_pc = "agent"
    /\ f_pc \in {"idle", "done"}
    /\ a_pc' = "waiting"
    /\ UNCHANGED <<a_adapter, a_requests, a_tools>>
    /\ UNCHANGED citeVars
    /\ UNCHANGED notAdapterVars

AdapterNext ==
    \/ CliQuestion
    \/ SlackMention
    \/ \E results \in ResultLists : SearchTool(results)
    \/ FormatCall
    \/ Answered

-----------------------------------------------------------------------------
(* Error classification and retry classification (src/src/utils/errors.py) *)

\* the texts the two functions look for in str(error).lower()
ConnectionRefused ==
    <<"c", "o", "n", "n", "e", "c", "t", "i", "o", "n", " ", "r", "e", "f",
      "u", "s", "e", "d">>
ConnectTimeoutText ==
    <<"c", "o", "n", "n", "e", "c", "t", " ", "t", "i", "m", "e", "o", "u",
      "t">>
ReadTimeoutText ==
    <<"r", "e", "a", "d", " ", "t", "i", "m", "e", "o", "u", "t">>
ApiKey == <<"a", "p", "i", " ", "k", "e", "y">>
ApiKeyJoined == <<"a", "p", "i", "k", "e", "y">>
Unauthorized == <<"u", "n", "a", "u", "t", "h", "o", "r", "i", "z", "e", "d">>
ModelWord == <<"m", "o", "d", "e", "l">>
NotFound == <<"n", "o", "t", " ", "f", "o", "u", "n", "d">>
DoesNotExist ==
    <<"d", "o", "e", "s", " ", "n", "o", "t", " ", "e", "x", "i", "s", "t">>
Ssl == <<"s", "s", "l">>
Certificate == <<"c", "e", "r", "t", "i", "f", "i", "c", "a", "t", "e">>
NameResolution ==
    <<"n", "a", "m", "e", " ", "r", "e", "s", "o", "l", "u", "t", "i", "o",
      "n">>
GetAddrInfo == <<"g", "e", "t", "a", "d", "d", "r", "i", "n", "f", "o">>
NodeName == <<"n", "o", "d", "e", "n", "a", "m", "e">>
ConnectWord == <<"c", "o", "n", "n", "e", "c", "t">>
ConnectionWord == <<"c", "o", "n", "n", "e", "c", "t", "i", "o", "n">>
TimeoutWord == <<"t", "i", "m", "e", "o", "u", "t">>
TimedOut == <<"t", "i", "m", "e", "d", " ", "o", "u", "t">>

\* str.lower() of a character
LowerChar(c) ==
    CASE c = "A" -> "a" [] c = "B" -> "b" [] c = "C" -> "c" [] c = "D" -> "d"
      [] c = "E" -> "e" [] c = "F" -> "f" [] c = "G" -> "g" [] c = "H" -> "h"
      [] c = "I" -> "i" [] c = "J" -> "j" [] c = "K" -> "k" [] c = "L" -> "l"
      [] c = "M" -> "m" [] c = "N" -> "n" [] c = "O" -> "o" [] c = "P" -> "p"
      [] c = "Q" -> "q" [] c = "R" -> "r" [] c = "S" -> "s" [] c = "T" -> "t"
      [] c = "U" -> "u" [] c = "V" -> "v" [] c = "W" -> "w" [] c = "X" -> "x"
      [] c = "Y" -> "y" [] c = "Z" -> "z"
      [] OTHER -> c

\* str.lower()
Lower(text) == [i \in 1..Len(text) |-> LowerChar(text[i])]

\* the exception classes the functions test for (httpx: none of the four is
\* a subclass of another), and any other Exception
ErrorTypes == {"Exception", "ConnectError", "ConnectTimeout", "ReadTimeout",
               "HTTPStatusError"}

\* error.response.status_code of an HTTPStatusError
StatusCodes == {400, 401, 403, 404, 429, 500, 503}

\* an exception that has no response
NoStatus == 0

\* the pieces the messages of the model are made of
PieceInvalidApiKey ==
    <<"I", "n", "v", "a", "l", "i", "d", " ", "A", "P", "I", " ", "K", "e",
      "y">>
PieceModel == <<"M", "o", "d", "e", "l">>
PieceDoesNotExist ==
    <<"d", "o", "e", "s", " ", "n", "o", "t", " ", "e", "x", "i", "s", "t">>
PieceTimedOut ==
    <<"R", "e", "q", "u", "e", "s", "t", " ", "t", "i", "m", "e", "d", " ",
      "o", "u", "t">>
PieceTimeoutParam == <<"?", "t", "i", "m", "e", "o", "u", "t", "=", "3", "0">>
PieceRefused ==
    <<"C", "o", "n", "n", "e", "c", "t", "i", "o", "n", " ", "r", "e", "f",
      "u", "s", "e", "d">>
PieceReadTimeout ==
    <<"r", "e", "a", "d", " ", "t", "i", "m", "e", "o", "u", "t">>
PieceError == <<"E", "r", "r", "o", "r">>
PieceCertificate == <<"c", "e", "r", "t", "i", "f", "i", "c", "a", "t", "e">>

MessagePieces == {PieceInvalidApiKey, PieceModel, PieceDoesNotExist, PieceTimedOut, PieceTimeoutParam,
                  PieceRefused, PieceReadTimeout, PieceError, PieceCertificate}

RECURSIVE JoinPieces(_)
\* the pieces of a message put together, a space between two of them
JoinPieces(pieces) ==
    IF pieces = <<>> THEN <<>>
    ELSE IF Len(pieces) = 1 THEN pieces[1]
    ELSE pieces[1] \o <<" ">> \o JoinPieces(Tail(pieces))

\* str(error): messages of up to MaxPieces pieces
Messages ==
    { JoinPieces(p) : p \in UNION { [1..n -> MessagePieces] : n \in 0..MaxPieces } }

\* the exceptions of the model
Errors ==
    { [type |-> t, status_code |-> NoStatus, message |-> m] :
          t \in ErrorTypes \ {"HTTPStatusError"}, m \in Messages }
    \cup { [type |-> "HTTPStatusError", status_code |-> c, message |-> m] :
              c \in StatusCodes, m \in Messages }

\* classify_llm_error: the short message of the first branch that applies
\* (each branch returns a fixed detailed message with it)
classify_llm_error(error) ==
    LET error_str == Lower(error.message)
        has(text) == Contains(error_str, text)
        by_text ==
            IF has(ApiKey) \/ has(ApiKeyJoined) \/ has(Unauthorized)
            THEN "LLM authentication error"
            ELSE IF has(ModelWord) /\ (has(NotFound) \/ has(DoesNotExist))
            THEN "LLM model not found"
            ELSE IF has(Ssl) \/ has(Certificate)
            THEN "LLM SSL error"
            ELSE IF has(NameResolution) \/ has(GetAddrInfo) \/ has(NodeName)
            THEN "LLM host not found"
            ELSE IF has(ConnectWord) \/ has(ConnectionWord)
            THEN "LLM connection error"
            ELSE "LLM error"
    IN  IF error.type = "ConnectError" \/ has(ConnectionRefused)
        THEN "LLM provider unreachable"
        ELSE IF error.type = "ConnectTimeout" \/ has(ConnectTimeoutText)
        THEN "LLM connection timeout"
        ELSE IF error.type = "ReadTimeout" \/ has(ReadTimeoutText)
        THEN "LLM response timeout"
        ELSE IF error.type = "HTTPStatusError"
        THEN CASE error.status_code = 401 -> "LLM authentication failed"
               [] error.status_code = 403 -> "LLM access denied"
               [] error.status_code = 404 -> "LLM endpoint not found"
               [] error.status_code = 429 -> "LLM rate limited"
               [] error.status_code >= 500 -> "LLM provider error"
               [] OTHER -> by_text
        ELSE by_text

\* is_retryable_error
is_retryable_error(error) ==
    LET error_str == Lower(error.message)
    IN  IF error.type \in {"ConnectTimeout", "ReadTimeout"} THEN TRUE
        ELSE IF error.type = "HTTPStatusError" /\ error.status_code = 429 THEN TRUE
        ELSE IF error.type = "HTTPStatusError" /\ error.status_code >= 500 THEN TRUE
        ELSE IF Contains(error_str, TimeoutWord) \/ Contains(error_str, TimedOut)
        THEN TRUE
        ELSE FALSE

\* the agent run of a request has raised
ErrorInit ==
    /\ e_pc = "raised"
    /\ e_error \in Errors
    /\ e_short = ""
    /\ e_retryable = FALSE

ErrorIdle ==
    /\ e_pc = "idle"
    /\ e_error = [type |-> "Exception", status_code |-> NoStatus, message |-> <<>>]
    /\ e_short = ""
    /\ e_retryable = FALSE


\* the handler formats the error: format_error_for_cli / format_error_for_slack
\* put the messages of classify_llm_error into the text for the user
FormatError ==
    /\ e_pc = "raised"
    /\ e_short' = classify_llm_error(e_error)
    /\ e_pc' = "formatted"
    /\ UNCHANGED <<e_error, e_retryable>>
    /\ UNCHANGED notErrorVars

\* `if is_retryable_error(e):` the handler adds the hint to try again
RetryHint ==
    /\ e_pc = "formatted"
    /\ e_retryable' = is_retryable_error(e_error)
    /\ e_pc' = "handled"
    /\ UNCHANGED <<e_error, e_short>>
    /\ UNCHANGED notErrorVars

ErrorNext == FormatError \/ RetryHint

-----------------------------------------------------------------------------
(* linkify_citations (src/src/response_filter.py)                          *)

\* U+2013 and U+2014, each one character of a text
EnDash == "ndash"
EmDash == "mdash"

\* the dashes linkify_citations turns into '-' (U+2010 .. U+2014) that the
\* model's texts can hold
UnicodeDashes == {EnDash, EmDash}

\* [-\u2013\u2014] of the pattern
PatternDashes == {"-", EnDash, EmDash}

\* \d
Digits == {"0", "1", "2", "3", "4", "5", "6", "7", "8", "9"}

Letters ==
    {"a", "b", "c", "d", "e", "f", "g", "h", "i", "j", "k", "l", "m", "n", "o", "p",
     "q", "r", "s", "t", "u", "v", "w", "x", "y", "z",
     "A", "B", "C", "D", "E", "F", "G", "H", "I", "J", "K", "L", "M", "N", "O", "P",
     "Q", "R", "S", "T", "U", "V", "W", "X", "Y", "Z"}

\* \w
WordChars == Letters \cup Digits \cup {"_"}

\* [\w-]
FileChars == WordChars \cup {"-"}

\* '.pdf'
DotPdf == <<".", "p", "d", "f">>

\* the character at 1-indexed position i, "" outside the text
At(text, i) == IF i >= 1 /\ i <= Len(text) THEN text[i] ELSE ""

\* a greedy run: the first position from i on that holds no character of
\* `chars` (Len(text) + 1 when the run goes to the end)
Span(chars, text, i) ==
    CHOOSE j \in i..(Len(text) + 1) :
        /\ \A k \in i..(j - 1) : text[k] \in chars
        /\ At(text, j) \notin chars

\* a negated class: the first position from i on that holds a character of
\* `stops` (Len(text) + 1 when there is none)
Until(stops, text, i) ==
    CHOOSE j \in i..(Len(text) + 1) :
        /\ \A k \in i..(j - 1) : text[k] \notin stops
        /\ (j = Len(text) + 1 \/ text[j] \in stops)

\* a literal of the pattern at position i, under re.IGNORECASE
MatchAtIgnoreCase(text, p, i) ==
    /\ i >= 1
    /\ i + Len(p) - 1 <= Len(text)
    /\ \A k \in 1..Len(p) : LowerChar(text[i + k - 1]) = p[k]

\* \b at position i: exactly one of the characters before and at i is \w
WordBoundary(text, i) == (At(text, i - 1) \in WordChars) # (At(text, i) \in WordChars)

DigitValue(c) ==
    CASE c = "0" -> 0 [] c = "1" -> 1 [] c = "2" -> 2 [] c = "3" -> 3 [] c = "4" -> 4
      [] c = "5" -> 5 [] c = "6" -> 6 [] c = "7" -> 7 [] c = "8" -> 8 [] c = "9" -> 9

RECURSIVE ToInt(_)
\* int(match.group(n))
ToInt(digits) ==
    IF digits = <<>> THEN 0
    ELSE 10 * ToInt(SubSeq(digits, 1, Len(digits) - 1)) + DigitValue(digits[Len(digits)])

\* normalized_text: every dash of UnicodeDashes replaced by '-'
NormalizeDashes(text) ==
    [i \in 1..Len(text) |-> IF text[i] \in UnicodeDashes THEN "-" ELSE text[i]]

\* \s*(\d+) can match at position e
PageFollows(text, e) == At(text, Span(Whitespace, text, e)) \in Digits

\* the element of a one-element set.  TheOne({ F(v) : v \in {e} }) is F of
\* the value of e, worked out once however often F uses it.
TheOne(S) == CHOOSE x \in S : TRUE

\* pp?\.? at position k (a 'p' is there): the position after it
ShortPageWordEnd(text, k) ==
    IF LowerChar(At(text, k + 1)) = "p"
    THEN (IF At(text, k + 2) = "." THEN k + 3 ELSE k + 2)
    ELSE (IF At(text, k + 1) = "." THEN k + 2 ELSE k + 1)

\* pages? at position k ('page' is there): the position after it
LongPageWordEnd(text, k) == IF LowerChar(At(text, k + 4)) = "s" THEN k + 5 ELSE k + 4

\* (?:pp?\.?|pages?) at position k with a page number after it: the position
\* after it, 0 when it does not match.  Each alternative is taken greedily:
\* giving a 'p', a '.' or an 's' back leaves that character where \s*(\d+)
\* wants a digit.
PageWordEnd(text, k) ==
    IF LowerChar(At(text, k)) = "p" /\ PageFollows(text, ShortPageWordEnd(text, k))
    THEN ShortPageWordEnd(text, k)
    ELSE IF /\ MatchAtIgnoreCase(text, <<"p", "a", "g", "e">>, k)
            /\ PageFollows(text, LongPageWordEnd(text, k))
    THEN LongPageWordEnd(text, k)
    ELSE 0

NoMatch == [ok |-> FALSE]

\* (\d+)(?:\s*[-\u2013\u2014]\s*(\d+))? with group 2 from d0 to d1 and the
\* white space after it up to r0: groups 2 and 3 (<<>> for a group that did
\* not take part) and the position after the match
PagesMatch(text, d0, d1, r0) ==
    LET r1 == Span(Whitespace, text, r0 + 1)
        r2 == Span(Digits, text, r1)
    IN  IF At(text, r0) \in PatternDashes /\ r2 > r1
        THEN [ok |-> TRUE, group2 |-> SubSeq(text, d0, d1 - 1),
              group3 |-> SubSeq(text, r1, r2 - 1), end |-> r2]
        ELSE [ok |-> TRUE, group2 |-> SubSeq(text, d0, d1 - 1),
              group3 |-> <<>>, end |-> d1]

\* group 2 from d0 to d1
PagesFrom(text, d0, d1) == PagesMatch(text, d0, d1, Span(Whitespace, text, d1))

\* \s*(\d+)(?:...)? at pe, the position after the page word
PagesAfter(text, pe) ==
    IF pe = 0 THEN NoMatch
    ELSE PagesFrom(text, Span(Whitespace, text, pe),
                   Span(Digits, text, Span(Whitespace, text, pe)))

\* \s*,?\s* at position k: the position after it
AfterComma(text, k) ==
    Span(Whitespace, text,
         IF At(text, Span(Whitespace, text, k)) = ","
         THEN Span(Whitespace, text, k) + 1
         ELSE Span(Whitespace, text, k))

\* the pattern from after group 1 on, \s*,?\s*(?:pp?\.?|pages?)\s*(\d+)
\* (?:\s*[-\u2013\u2014]\s*(\d+))?, at position k
CitationTail(text, k) == PagesAfter(text, PageWordEnd(text, AfterComma(text, k)))

\* the ends group 1 can have when it starts at i and [\w-]+ can go up to m,
\* each with whether '.pdf' is part of it: those after which the rest of the
\* pattern matches
Group1Ends(text, i, m) ==
    { c \in ((i + 1)..m) \X BOOLEAN :
        /\ c[2] => (c[1] = m /\ MatchAtIgnoreCase(text, DotPdf, m))
        /\ CitationTail(text, IF c[2] THEN c[1] + 4 ELSE c[1]).ok }

\* the match with group 1 from i to gend and `tail` after it
CitationMatch(text, i, gend, tail) ==
    [ok |-> TRUE,
     group0 |-> SubSeq(text, i, tail.end - 1),
     group1 |-> SubSeq(text, i, gend - 1),
     group2 |-> tail.group2,
     group3 |-> tail.group3,
     end |-> tail.end]

\* the match the engine finds first: the longest [\w-]+ the rest of the
\* pattern allows, with '.pdf' before without
PreferredMatch(text, i, ends) ==
    IF ends = {} THEN NoMatch
    ELSE TheOne({ CitationMatch(text, i, gend, CitationTail(text, gend)) :
                  gend \in { IF c[2] THEN c[1] + 4 ELSE c[1] :
                             c \in { c \in ends : \A d \in ends :
                                        d[1] < c[1] \/ (d[1] = c[1] /\ (c[2] \/ ~d[2])) } } })

\* the match of the pattern that starts at position i, if there is one:
\* neither '](' nor '|' before i, a word boundary at i, then group 1,
\* [\w-]+(?:\.pdf)?, and the rest of the pattern
CitationAt(text, i) ==
    IF \/ At(text, i) \notin FileChars
       \/ ~WordBoundary(text, i)
       \/ (At(text, i - 2) = "]" /\ At(text, i - 1) = "(")
       \/ At(text, i - 1) = "|"
    THEN NoMatch
    ELSE PreferredMatch(text, i, Group1Ends(text, i, Span(FileChars, text, i)))

\* no URL (None, or the empty string)
NoUrlText == <<>>

\* dict.get
MapGet(map, key) == IF key \in DOMAIN map THEN map[key] ELSE NoUrlText

\* KomgaClient.get_page_url as text: the base URL and '/book/', the book id,
\* '/read?page=' and the page (base URL and fixed words in short)
PageUrlText(book_id, page_number) ==
    <<"k", "/">> \o book_id \o <<"?">> \o Str(page_number)

\* no komga_client (None)
NoClient == [present |-> FALSE, configured |-> FALSE, cache |-> EmptyDict]

\* KomgaClient.get_source_url_sync: the cache only, no request
get_source_url_sync(client, filename, page_number) ==
    LET exact == MapGet(client.cache, filename)
        book_id == IF exact = <<>> /\ ~EndsWith(filename, DotPdf)
                   THEN MapGet(client.cache, filename \o DotPdf)
                   ELSE exact
    IN  IF ~client.configured \/ book_id = <<>> THEN NoUrlText
        ELSE IF page_number # 0 THEN PageUrlText(book_id, page_number)
        ELSE PageUrlText(book_id, 1)

\* replace_citation: the text put in place of a match, and whether a URL
\* was found for it
replace_citation(match, cmap, komga_client) ==
    LET filename == match.group1
        first_page == ToInt(match.group2)
        last_page == IF match.group3 # <<>> THEN ToInt(match.group3) ELSE 0
        exact == MapGet(cmap, <<filename, first_page>>)
        mapped == IF exact = NoUrlText /\ ~EndsWith(filename, DotPdf)
                  THEN MapGet(cmap, <<filename \o DotPdf, first_page>>)
                  ELSE exact
        url == IF mapped = NoUrlText /\ komga_client.present
               THEN get_source_url_sync(komga_client, filename, first_page)
               ELSE mapped
        link_text == IF last_page # 0
                     THEN filename \o <<",", " ", "p", "p", ".", " ">> \o Str(first_page)
                              \o <<"-">> \o Str(last_page)
                     ELSE filename \o <<",", " ", "p", ".", " ">> \o Str(first_page)
    IN  IF url # NoUrlText
        THEN [text |-> <<"[">> \o link_text \o <<"]", "(">> \o url \o <<")">>, hit |-> TRUE]
        ELSE [text |-> match.group0, hit |-> FALSE]

\* the least number of a non-empty set of numbers
Least(S) == CHOOSE x \in S : \A y \in S : x <= y

RECURSIVE SubCitations(_, _, _, _, _, _)
\* the scan of SubCitations at the leftmost match from `from` on: the text
\* before it is kept, the match is replaced (replace_citation), and the scan
\* goes on after it
CitationStep(text, from, cmap, komga_client, out, hits, match) ==
    TheOne({ SubCitations(text, match.end, cmap, komga_client,
                          out \o SubSeq(text, from, match.end - Len(match.group0) - 1)
                              \o new.text,
                          hits + (IF new.hit THEN 1 ELSE 0)) :
             new \in {replace_citation(match, cmap, komga_client)} })

\* re.sub(pattern, replace_citation, text) from position `from` on, `out` the
\* result up to there and `hits` the matches a URL was found for
SubCitations(text, from, cmap, komga_client, out, hits) ==
    TheOne({ IF starts = {}
             THEN [text |-> out \o SubSeq(text, from, Len(text)), hits |-> hits]
             ELSE CitationStep(text, from, cmap, komga_client, out, hits,
                               CitationAt(text, Least(starts))) :
             starts \in {{ pos \in from..Len(text) : CitationAt(text, pos).ok }} })

\* the match of \(\[([^\]]+\.pdf[^\]]+)\]\(([^)]+)\)\) at position i
ParenLinkAt(text, i) ==
    LET j == Until({"]"}, text, i + 2)
        c == Until({")"}, text, j + 2)
    IN  IF /\ At(text, i) = "("
           /\ At(text, i + 1) = "["
           /\ At(text, j) = "]"
           /\ \E q \in (i + 3)..(j - 5) : MatchAt(text, DotPdf, q)
           /\ At(text, j + 1) = "("
           /\ c > j + 2
           /\ At(text, c) = ")"
           /\ At(text, c + 1) = ")"
        THEN [ok |-> TRUE, group1 |-> SubSeq(text, i + 2, j - 1),
              group2 |-> SubSeq(text, j + 2, c - 1), end |-> c + 2]
        ELSE NoMatch

RECURSIVE SubParenLinks(_, _, _)
\* the scan of SubParenLinks at the leftmost match from `from` on
ParenLinkStep(text, from, out, match) ==
    SubParenLinks(text, match.end,
                  out \o SubSeq(text, from,
                                match.end - Len(match.group1) - Len(match.group2) - 7)
                      \o <<"[">> \o match.group1 \o <<"]", "(">> \o match.group2
                      \o <<")">>)

\* re.sub(..., r'[\1](\2)', text) from position `from` on, `out` the result
\* up to there
SubParenLinks(text, from, out) ==
    TheOne({ IF starts = {} THEN out \o SubSeq(text, from, Len(text))
             ELSE TheOne({ ParenLinkStep(text, from, out, match) :
                           match \in {ParenLinkAt(text, Least(starts))} }) :
             starts \in {{ pos \in from..Len(text) : ParenLinkAt(text, pos).ok }} })

\* linkify_citations: the text it returns, and (for the statements about it)
\* the number of citations it found a URL for
linkify_citations(text, cmap, komga_client) ==
    IF cmap = EmptyDict /\ ~komga_client.present
    THEN [text |-> text, hits |-> 0]
    ELSE TheOne({ [text |-> SubParenLinks(result.text, 1, <<>>), hits |-> result.hits] :
                  result \in { SubCitations(normalized_text, 1, cmap, komga_client, <<>>, 0) :
                               normalized_text \in {NormalizeDashes(text)} } })

\* the fragments the texts of the model are made of
FragCitation == <<"G", ".", "p", "d", "f", ",", " ", "p", ".", " ", "4", "2">>
FragRange ==
    <<"G", ",", " ", "p", "p", ".", " ", "4", "2", "ndash", "4", "4">>
FragOther == <<"B", ".", "p", "d", "f", " ", "p", "a", "g", "e", " ", "7">>
FragStop == <<"s", "t", "o", "p", " ", "5">>
FragDash == <<" ", "mdash", " ">>
FragOpen == <<"(">>
FragClose == <<")">>
FragLinked ==
    <<"[", "G", ".", "p", "d", "f", ",", " ", "p", ".", " ", "4", "2", "]",
      "(", "k", "/", "b", "1", "?", "4", "2", ")">>
FragSee == <<"s", "e", "e", " ">>

LinkFragments == {FragCitation, FragRange, FragOther, FragStop, FragDash,
                  FragOpen, FragClose, FragLinked, FragSee}

RECURSIVE Concat(_)
\* the fragments of a text one after the other
Concat(fragments) ==
    IF fragments = <<>> THEN <<>> ELSE Head(fragments) \o Concat(Tail(fragments))

\* texts of up to MaxFragments fragments
LinkTexts ==
    { Concat(f) : f \in UNION { [1..n -> LinkFragments] : n \in 0..MaxFragments } }

\* the citation map after a search that found page 42 of G.pdf
LinkMap == DictPut(EmptyDict, <<<<"G", ".", "p", "d", "f">>, 42>>,
                   PageUrlText(<<"b", "1">>, 42))

\* the clients: none, or a configured one that has G.pdf in its cache
LinkClients ==
    {NoClient,
     [present |-> TRUE, configured |-> TRUE,
      cache |-> DictPut(EmptyDict, <<"G", ".", "p", "d", "f">>, <<"b", "1">>)]}

LinkInit ==
    /\ l_pc = "given"
    /\ l_text \in LinkTexts
    /\ l_map \in {EmptyDict, LinkMap}
    /\ l_client \in LinkClients
    /\ l_out = <<>>
    /\ l_hits = 0
    /\ l_out2 = <<>>

LinkIdle ==
    /\ l_pc = "idle"
    /\ l_text = <<>>
    /\ l_map = EmptyDict
    /\ l_client = NoClient
    /\ l_out = <<>>
    /\ l_hits = 0
    /\ l_out2 = <<>>


\* linkify_citations(text, citation_map, komga_client)
Linkify ==
    /\ l_pc = "given"
    /\ LET r == linkify_citations(l_text, l_map, l_client)
       IN  /\ l_out' = r.text
           /\ l_hits' = r.hits
    /\ l_pc' = "linkified"
    /\ UNCHANGED <<l_text, l_map, l_client, l_out2>>
    /\ UNCHANGED notLinkVars

\* linkify_citations on its own output, with the same map and client
LinkifyAgain ==
    /\ l_pc = "linkified"
    /\ l_out2' = linkify_citations(l_out, l_map, l_client).text
    /\ l_pc' = "twice"
    /\ UNCHANGED <<l_text, l_map, l_client, l_out, l_hits>>
    /\ UNCHANGED notLinkVars

LinkNext == Linkify \/ LinkifyAgain

-----------------------------------------------------------------------------
(* markdown_to_slack (src/src/response_filter.py)                          *)

\* the control characters \x00 and \x01 of the placeholders, the bullet
\* U+2022 and the backtick ("backtick"), each one character of a text
NUL == "NUL"
SOH == "SOH"
Bullet == "bullet"

\* F of the value of v, worked out once
Pipe(v, F(_)) == TheOne({ F(x) : x \in {v} })

RECURSIVE SubAll(_, _, _, _)
\* re.sub and str.replace: matches[p] is the match that starts at position
\* p (ok, the position after it, and what it is replaced by); from `from` on
\* the leftmost match is replaced and the scan goes on after it, `out` the
\* result up to `from`
SubAll(text, matches, from, out) ==
    Pipe({ p \in from..Len(text) : matches[p].ok },
         LAMBDA starts :
             IF starts = {} THEN out \o SubSeq(text, from, Len(text))
             ELSE Pipe(Least(starts),
                       LAMBDA p : SubAll(text, matches, matches[p].end,
                                         out \o SubSeq(text, from, p - 1)
                                             \o matches[p].new)))

\* "CODE_BLOCK_" and "INLINE_CODE_"
CodeBlockName == <<"C", "O", "D", "E", "_", "B", "L", "O", "C", "K", "_">>
InlineCodeName ==
    <<"I", "N", "L", "I", "N", "E", "_", "C", "O", "D", "E", "_">>

\* f"\x00CODE_BLOCK_{n}\x00", f"\x00INLINE_CODE_{n}\x00"
Placeholder(name, n) == <<NUL>> \o name \o Str(n) \o <<NUL>>

RECURSIVE Protect(_, _, _, _, _, _)
\* re.sub(pattern, save_..., text): ends[p] is the position after the match
\* that starts at p (0 without one); each match is appended to `saved` and
\* replaced by the placeholder of its index
Protect(text, ends, name, from, out, saved) ==
    Pipe({ p \in from..Len(text) : ends[p] # 0 },
         LAMBDA starts :
             IF starts = {}
             THEN [text |-> out \o SubSeq(text, from, Len(text)), saved |-> saved]
             ELSE Pipe(Least(starts),
                       LAMBDA p : Protect(text, ends, name, ends[p],
                                          out \o SubSeq(text, from, p - 1)
                                              \o Placeholder(name, Len(saved)),
                                          Append(saved, SubSeq(text, p, ends[p] - 1)))))

\* '```'
Fence == <<"backtick", "backtick", "backtick">>

\* ```[\s\S]*?``` at position i: the position after the nearest closing
\* fence, 0 without a match
FenceEnd(text, i) ==
    IF MatchAt(text, Fence, i) /\ \E j \in (i + 3)..Len(text) : MatchAt(text, Fence, j)
    THEN Least({ j \in (i + 3)..Len(text) : MatchAt(text, Fence, j) }) + 3
    ELSE 0

\* `[^`]+` at position i: the position after it, 0 without a match
InlineCodeEnd(text, i) ==
    IF /\ At(text, i) = "backtick"
       /\ Until({"backtick"}, text, i + 1) > i + 1
       /\ Until({"backtick"}, text, i + 1) <= Len(text)
    THEN Until({"backtick"}, text, i + 1) + 1
    ELSE 0

\* result = re.sub(r'```[\s\S]*?```', save_code_block, result)
ProtectCodeBlocks(text) ==
    Protect(text, [p \in 1..Len(text) |-> FenceEnd(text, p)], CodeBlockName, 1, <<>>, <<>>)

\* result = re.sub(r'`[^`]+`', save_inline_code, result)
ProtectInlineCode(text) ==
    Protect(text, [p \in 1..Len(text) |-> InlineCodeEnd(text, p)], InlineCodeName, 1,
            <<>>, <<>>)

\* \[([^\]]+)\]\(([^)]+)\) at position i, replaced by <\2|\1>
LinkAt(text, i) ==
    LET j == Until({"]"}, text, i + 1)
        c == Until({")"}, text, Until({"]"}, text, i + 1) + 2)
    IN  IF /\ At(text, i) = "["
           /\ j > i + 1
           /\ At(text, j) = "]"
           /\ At(text, j + 1) = "("
           /\ c > j + 2
           /\ At(text, c) = ")"
        THEN [ok |-> TRUE, end |-> c + 1,
              new |-> <<"<">> \o SubSeq(text, j + 2, c - 1) \o <<"|">>
                          \o SubSeq(text, i + 1, j - 1) \o <<">">>]
        ELSE NoMatch

\* BOLD_START and BOLD_END
BOLD_START ==
    <<"SOH", "B", "O", "L", "D", "_", "S", "T", "A", "R", "T", "SOH">>
BOLD_END == <<"SOH", "B", "O", "L", "D", "_", "E", "N", "D", "SOH">>

\* ^ under re.MULTILINE: position i is the start of the text or of a line
LineStart(text, i) == i = 1 \/ At(text, i - 1) = "\n"

\* the \s+ of the header pattern from position w0 on, the white space
\* running up to w1: the position at which (.+) starts.  \s+ takes as much
\* as leaves (.+) a character that is not a newline; 0 when it cannot.
HeaderTextStart(text, w0, w1) ==
    IF \E w \in (w0 + 1)..w1 : At(text, w) \notin {"", "\n"}
    THEN CHOOSE w \in (w0 + 1)..w1 :
             /\ At(text, w) \notin {"", "\n"}
             /\ \A v \in (w + 1)..w1 : At(text, v) \in {"", "\n"}
    ELSE 0

\* the header match with hashes from i up to h and (.+) from g on
HeaderMatch(text, i, h, g) ==
    IF h = i \/ h > i + 6 \/ g = 0 THEN NoMatch
    ELSE [ok |-> TRUE, end |-> Until({"\n"}, text, g),
          new |-> BOLD_START \o SubSeq(text, g, Until({"\n"}, text, g) - 1) \o BOLD_END]

\* ^#{1,6}\s+(.+)$ at position i, replaced by header_to_bold
HeaderAt(text, i) ==
    IF ~LineStart(text, i) THEN NoMatch
    ELSE HeaderMatch(text, i, Span({"#"}, text, i),
                     HeaderTextStart(text, Span({"#"}, text, i),
                                     Span(Whitespace, text, Span({"#"}, text, i))))

\* mm([^m]+)mm at position i for the marker character m (\*\*...\*\*,
\* __...__, ~~...~~), replaced by before \o group 1 \o after
DoubledAt(text, i, m, before, after) ==
    LET j == Until({m}, text, i + 2)
    IN  IF /\ At(text, i) = m
           /\ At(text, i + 1) = m
           /\ j > i + 2
           /\ At(text, j) = m
           /\ At(text, j + 1) = m
        THEN [ok |-> TRUE, end |-> j + 2,
              new |-> before \o SubSeq(text, i + 2, j - 1) \o after]
        ELSE NoMatch

\* ^-\s+ and ^\*\s+ at position i for the marker character m, replaced by
\* the bullet and a space
BulletAt(text, i, m) ==
    IF LineStart(text, i) /\ At(text, i) = m /\ At(text, i + 1) \in Whitespace
    THEN [ok |-> TRUE, end |-> Span(Whitespace, text, i + 1), new |-> <<Bullet, " ">>]
    ELSE NoMatch

\* (?<!\*)\*([^*\x01]+)\*(?!\*) at position i, replaced by _\1_
ItalicAt(text, i) ==
    LET j == Until({"*", SOH}, text, i + 1)
    IN  IF /\ At(text, i - 1) # "*"
           /\ At(text, i) = "*"
           /\ j > i + 1
           /\ At(text, j) = "*"
           /\ At(text, j + 1) # "*"
        THEN [ok |-> TRUE, end |-> j + 1,
              new |-> <<"_">> \o SubSeq(text, i + 1, j - 1) \o <<"_">>]
        ELSE NoMatch

\* str.replace(old, new)
Replace(text, old, new) ==
    SubAll(text,
           [p \in 1..Len(text) |->
               [ok |-> MatchAt(text, old, p), end |-> p + Len(old), new |-> new]],
           1, <<>>)

ConvertLinks(text) == SubAll(text, [p \in 1..Len(text) |-> LinkAt(text, p)], 1, <<>>)

ConvertHeaders(text) == SubAll(text, [p \in 1..Len(text) |-> HeaderAt(text, p)], 1, <<>>)

ConvertBold(text, m) ==
    SubAll(text, [p \in 1..Len(text) |-> DoubledAt(text, p, m, BOLD_START, BOLD_END)],
           1, <<>>)

ConvertBullets(text, m) ==
    SubAll(text, [p \in 1..Len(text) |-> BulletAt(text, p, m)], 1, <<>>)

ConvertItalic(text) == SubAll(text, [p \in 1..Len(text) |-> ItalicAt(text, p)], 1, <<>>)

ConvertStrikethrough(text) ==
    SubAll(text, [p \in 1..Len(text) |-> DoubledAt(text, p, "~", <<"~">>, <<"~">>)],
           1, <<>>)

\* the rules between protecting and restoring the code, in the order of the
\* function: links, headers, bold (** then __), bullets (- then *), italic,
\* strikethrough, and the bold placeholders to '*'
ConvertMarkup(text) ==
    Pipe(Pipe(Pipe(Pipe(Pipe(Pipe(Pipe(Pipe(Pipe(
        ConvertLinks(text),
        ConvertHeaders),
        LAMBDA t : ConvertBold(t, "*")),
        LAMBDA t : ConvertBold(t, "_")),
        LAMBDA t : ConvertBullets(t, "-")),
        LAMBDA t : ConvertBullets(t, "*")),
        ConvertItalic),
        ConvertStrikethrough),
        LAMBDA t : Replace(t, BOLD_START, <<"*">>)),
        LAMBDA t : Replace(t, BOLD_END, <<"*">>))

RECURSIVE Restore(_, _, _, _)
\* for i, code in enumerate(saved): result = result.replace(placeholder, code),
\* from the i-th saved text on (i 1-indexed)
Restore(text, name, saved, i) ==
    IF i > Len(saved) THEN text
    ELSE Pipe(Replace(text, Placeholder(name, i - 1), saved[i]),
              LAMBDA t : Restore(t, name, saved, i + 1))

\* a markdown_to_slack that converts the text as it is, code included
markdown_to_slack_unprotected(text) == ConvertMarkup(text)

\* markdown_to_slack: the code blocks, then the inline code, are put aside;
\* the markup of the rest is converted; the inline code, then the code
\* blocks, are put back
markdown_to_slack(text) ==
    Pipe(ProtectCodeBlocks(text),
         LAMBDA blocks :
             Pipe(ProtectInlineCode(blocks.text),
                  LAMBDA inline :
                      Pipe(Pipe(ConvertMarkup(inline.text),
                                LAMBDA t : Restore(t, InlineCodeName, inline.saved, 1)),
                           LAMBDA t : Restore(t, CodeBlockName, blocks.saved, 1))))

\* the code the texts of the model hold, and what stands between it
ItemCodeBold == <<"backtick", "*", "*", "a", "*", "*", "backtick">>
ItemCodeItalic == <<"backtick", "*", "b", "*", "backtick">>
ItemFence ==
    <<"backtick", "backtick", "backtick", "\n", "-", " ", "~", "~", "s", "~", "~", "\n", "backtick", "backtick",
      "backtick">>
ItemCodeLink == <<"backtick", "[", "t", "]", "(", "u", ")", "backtick">>
ItemPlain == <<"x">>
ItemNewline == <<"\n">>
ItemAsterisk == <<"*">>
ItemBacktick == <<"backtick">>
\* a list item on a line of its own
ItemDashLine == <<"\n", "-", " ", "y">>
ItemStarLine == <<"\n", "*", " ", "y">>

MarkdownItems == {ItemCodeBold, ItemCodeItalic, ItemFence, ItemCodeLink,
                  ItemPlain, ItemNewline, ItemAsterisk, ItemBacktick,
                  ItemDashLine, ItemStarLine}

\* what a text opens and closes with: nothing, bold, italic, strikethrough,
\* a header, a list item, a link
MarkdownWrappers ==
    {[open |-> <<>>, close |-> <<>>],
     [open |-> <<"*", "*">>, close |-> <<"*", "*">>],
     [open |-> <<"*">>, close |-> <<"*">>],
     [open |-> <<"_", "_">>, close |-> <<"_", "_">>],
     [open |-> <<"~", "~">>, close |-> <<"~", "~">>],
     [open |-> <<"#", " ">>, close |-> <<>>],
     [open |-> <<"-", " ">>, close |-> <<>>],
     [open |-> <<"*", " ">>, close |-> <<>>],
     [open |-> <<"[">>, close |-> <<"]", "(", "u", ")">>],
     [open |-> <<"[", "t", "]", "(">>, close |-> <<")">>]}

\* texts of up to MaxItems items inside a wrapper
MarkdownTexts ==
    { w.open \o Concat(f) \o w.close :
        w \in MarkdownWrappers,
        f \in UNION { [1..n -> MarkdownItems] : n \in 0..MaxItems } }

MarkdownInit ==
    /\ m_pc = "given"
    /\ m_text \in MarkdownTexts
    /\ m_out = <<>>

MarkdownIdle ==
    /\ m_pc = "idle"
    /\ m_text = <<>>
    /\ m_out = <<>>

\* markdown_to_slack(text)
MarkdownToSlack ==
    /\ m_pc = "given"
    /\ m_out' = markdown_to_slack(m_text)
    /\ m_pc' = "converted"
    /\ UNCHANGED m_text
    /\ UNCHANGED notMarkdownVars

MarkdownNext == MarkdownToSlack

-----------------------------------------------------------------------------
(* KomgaClient.get_source_url_sync beside get_book_id (src/src/komga.py)   *)

\* a get_source_url_sync that looks the filename up as it is given only
KomgaClient_get_source_url_sync_exact(configured, cache, filename, page_number) ==
    LET book_id == IF filename \in DOMAIN cache THEN cache[filename] ELSE NoBook
    IN  IF ~configured \/ book_id = NoBook THEN NoUrl
        ELSE IF page_number # NoPage THEN get_page_url(book_id, page_number)
        ELSE get_page_url(book_id, 1)

\* KomgaClient.get_source_url_sync on the client of the formatter (file
\* names as strings, URLs as get_page_url builds them): None on a client
\* that is not configured; self._cache.get(filename), then, without an id
\* and for a filename that does not end in '.pdf',
\* self._cache.get(filename + '.pdf'); None without an id, else the link to
\* the page (to page 1 without a page number)
KomgaClient_get_source_url_sync(configured, cache, filename, page_number) ==
    LET exact == IF filename \in DOMAIN cache THEN cache[filename] ELSE NoBook
        book_id == IF exact = NoBook /\ ~IsPdf(filename)
                   THEN IF filename \o ".pdf" \in DOMAIN cache
                        THEN cache[filename \o ".pdf"]
                        ELSE NoBook
                   ELSE exact
    IN  IF ~configured \/ book_id = NoBook THEN NoUrl
        ELSE IF page_number # NoPage THEN get_page_url(book_id, page_number)
        ELSE get_page_url(book_id, 1)

\* the filenames the resolvers are called with, and the page numbers
SyncFiles == {"GRR.pdf", "GRR", "B.pdf"}

SyncPages == {NoPage, 7}

\* the caches a client starts with (loaded from the cache file)
SyncCaches ==
    {EmptyDict,
     DictPut(EmptyDict, "GRR.pdf", "b1"),
     DictPut(DictPut(EmptyDict, "GRR.pdf", "b1"), "GRR", "b2")}

\* a client and no formatter
SyncInit ==
    /\ k_configured \in BOOLEAN
    /\ k_cache \in SyncCaches
    /\ k_disk = k_cache
    /\ k_requests = 0
    /\ f_pc = "idle"
    /\ f_results = <<>>
    /\ f_sink = FALSE
    /\ citation_map = EmptyDict
    /\ f_i = 0
    /\ f_j = 0
    /\ f_link = NoUrl
    /\ f_parts = <<>>
    /\ f_lookups = <<>>
    /\ f_output = [text |-> "", n |-> 0, parts |-> <<>>]
    /\ o_pc = "idle"
    /\ o_file = ""
    /\ o_hit = FALSE
    /\ o_answer = ""
    /\ o_result = NoBook
    /\ o_calls = 0
    /\ y_pc = "idle"
    /\ y_file = ""
    /\ y_page = NoPage
    /\ y_url = NoUrl

SyncIdle ==
    /\ y_pc = "idle"
    /\ y_file = ""
    /\ y_page = NoPage
    /\ y_url = NoUrl

\* get_source_url_sync(filename, page_number) is called and returns: it
\* reads is_configured() and self._cache and nothing else
SyncCall(filename, page_number) ==
    /\ y_pc' = "returned"
    /\ y_file' = filename
    /\ y_page' = page_number
    /\ y_url' = KomgaClient_get_source_url_sync(k_configured, k_cache, filename,
                                                page_number)
    /\ UNCHANGED notSyncVars

SyncNext ==
    \/ \E filename \in SyncFiles, page_number \in SyncPages :
          SyncCall(filename, page_number)
    \/ \E filename \in SyncFiles : LookupCall(filename)
    \/ \E answer \in CatalogAnswers, saved \in BOOLEAN : LookupResume(answer, saved)

-----------------------------------------------------------------------------
(* filter_response, filter_response_for_slack (src/src/response_filter.py) *)
(* and the reply of handle_mention (src/src/slack_bot.py)                  *)

\* <think>[\s\S]*?</think>\s* at position i, replaced by ''
ThinkBlockAt(text, i) ==
    IF MatchAt(text, OpenTag, i)
       /\ \E j \in (i + Len(OpenTag))..Len(text) : MatchAt(text, CloseTag, j)
    THEN [ok |-> TRUE,
          end |-> Span(Whitespace, text,
                       Least({ j \in (i + Len(OpenTag))..Len(text) :
                                 MatchAt(text, CloseTag, j) }) + Len(CloseTag)),
          new |-> <<>>]
    ELSE NoMatch

\* the text after the first '</think>', stripped, when there is one
AfterCloseTag(filtered) ==
    IF Contains(filtered, CloseTag)
    THEN Strip(SubSeq(filtered, Find(filtered, CloseTag) + Len(CloseTag) + 1,
                      Len(filtered)))
    ELSE filtered

\* filter_think_content
filter_think_content(text) ==
    Strip(Pipe(SubAll(text, [p \in 1..Len(text) |-> ThinkBlockAt(text, p)], 1, <<>>),
               AfterCloseTag))

\* the literals of the patterns of filter_tool_artifacts
ToolKey == <<"{", "\"", "t", "o", "o", "l", "\"", ":">>
ArgsKey == <<"\"", "a", "r", "g", "s", "\"", ":">>
ToolResultOpen ==
    <<"[", "t", "o", "o", "l", " ", "r", "e", "s", "u", "l", "t", ":">>
FunctionCallOpen ==
    <<"s", "e", "a", "r", "c", "h", "_", "k", "n", "o", "w", "l", "e", "d",
      "g", "e", "_", "b", "a", "s", "e", "(">>
Arrow == <<"-", ">">>

\* the rest of the tool call pattern from the opening quote of the tool
\* name at q on: "[^"]+",\s*"args":\s*\{[^}]*\}\}; the position after the
\* match, 0 without one
ToolCallArgsEnd(text, b) ==
    IF At(text, b) = "{" /\ MatchAt(text, <<"}", "}">>, Until({"}"}, text, b + 1))
    THEN Until({"}"}, text, b + 1) + 2
    ELSE 0

ToolCallNameEnd(text, q, e) ==
    IF /\ At(text, q) = "\""
       /\ e > q + 1
       /\ MatchAt(text, <<"\"", ",">>, e)
       /\ MatchAt(text, ArgsKey, Span(Whitespace, text, e + 2))
    THEN ToolCallArgsEnd(text, Span(Whitespace, text,
                                   Span(Whitespace, text, e + 2) + Len(ArgsKey)))
    ELSE 0

\* \{"tool":\s*"[^"]+",\s*"args":\s*\{[^}]*\}\} at position i: the position
\* after the match, 0 without one
ToolCallEnd(text, i) ==
    IF MatchAt(text, ToolKey, i)
    THEN ToolCallNameEnd(text, Span(Whitespace, text, i + Len(ToolKey)),
                         Until({"\""}, text, Span(Whitespace, text, i + Len(ToolKey)) + 1))
    ELSE 0

\* \[Tool Result:.*?\] under re.IGNORECASE | re.DOTALL: the position after
\* the match, 0 without one
ToolResultEnd(text, i) ==
    IF MatchAtIgnoreCase(text, ToolResultOpen, i)
       /\ Until({"]"}, text, i + Len(ToolResultOpen)) <= Len(text)
    THEN Until({"]"}, text, i + Len(ToolResultOpen)) + 1
    ELSE 0

\* search_knowledge_base\([^)]*\)\s*->\s*: the position after the match,
\* 0 without one
FunctionCallArrowEnd(text, a) ==
    IF MatchAt(text, Arrow, a) THEN Span(Whitespace, text, a + Len(Arrow)) ELSE 0

FunctionCallEnd(text, i) ==
    IF MatchAt(text, FunctionCallOpen, i)
       /\ Until({")"}, text, i + Len(FunctionCallOpen)) <= Len(text)
    THEN FunctionCallArrowEnd(text,
             Span(Whitespace, text, Until({")"}, text, i + Len(FunctionCallOpen)) + 1))
    ELSE 0

\* a run of at least n of the character c at position i, replaced by new
RunAt(text, i, c, n, new) ==
    IF At(text, i) = c /\ Span({c}, text, i) >= i + n
    THEN [ok |-> TRUE, end |-> Span({c}, text, i), new |-> new]
    ELSE NoMatch

\* a match that ends at `end` (0: none), replaced by ''
Removed(end) == [ok |-> end # 0, end |-> end, new |-> <<>>]

\* filter_tool_artifacts: the three patterns are removed one after the
\* other, then \n{3,} becomes two newlines and '  +' one space, and the
\* text is stripped
filter_tool_artifacts(text) ==
    Strip(Pipe(Pipe(Pipe(Pipe(
        SubAll(text, [p \in 1..Len(text) |-> Removed(ToolCallEnd(text, p))], 1, <<>>),
        LAMBDA t : SubAll(t, [p \in 1..Len(t) |-> Removed(ToolResultEnd(t, p))], 1, <<>>)),
        LAMBDA t : SubAll(t, [p \in 1..Len(t) |-> Removed(FunctionCallEnd(t, p))], 1, <<>>)),
        LAMBDA t : SubAll(t, [p \in 1..Len(t) |-> RunAt(t, p, "\n", 3, <<"\n", "\n">>)],
                          1, <<>>)),
        LAMBDA t : SubAll(t, [p \in 1..Len(t) |-> RunAt(t, p, " ", 2, <<" ">>)], 1, <<>>)))

\* filter_response
filter_response(text) == Pipe(filter_think_content(text), filter_tool_artifacts)

\* the linkify_citations of filter_response_for_slack: only with a map that
\* is not empty or with a client
LinkifiedForSlack(result, cmap, komga_client) ==
    IF cmap # EmptyDict \/ komga_client.present
    THEN linkify_citations(result, cmap, komga_client).text
    ELSE result

\* filter_response_for_slack(text, citation_map, komga_client)
filter_response_for_slack(text, cmap, komga_client) ==
    Pipe(Pipe(filter_response(text),
              LAMBDA result : LinkifiedForSlack(result, cmap, komga_client)),
         markdown_to_slack)

\* "I processed your request but have no response to share."
NoResponse == <<"I processed your request but have no response to share.">>

\* the fragments of the texts of the model
PartThink ==
    <<"<", "t", "h", "i", "n", "k", ">", "r", "<", "/", "t", "h", "i", "n",
      "k", ">", " ">>
PartCloseTag == <<"w", "<", "/", "t", "h", "i", "n", "k", ">">>
PartToolResult ==
    <<"[", "T", "o", "o", "l", " ", "R", "e", "s", "u", "l", "t", ":", " ",
      "x", "]">>
PartToolCall ==
    <<"{", "\"", "t", "o", "o", "l", "\"", ":", " ", "\"", "s", "\"", ",",
      " ", "\"", "a", "r", "g", "s", "\"", ":", " ", "{", "}", "}">>
PartFunctionCall ==
    <<"s", "e", "a", "r", "c", "h", "_", "k", "n", "o", "w", "l", "e", "d",
      "g", "e", "_", "b", "a", "s", "e", "(", "q", ")", " ", "-", ">", " ">>
PartBold == <<"*", "*", "b", "*", "*">>
PartSpaces == <<" ", " ", "x", "\n", "\n", "\n">>

MentionParts == {FragCitation, FragOther, FragSee, PartThink, PartCloseTag, PartToolResult,
                 PartToolCall, PartFunctionCall, PartBold, PartSpaces}

MentionTexts == { Concat(f) : f \in UNION { [1..n -> MentionParts] : n \in 0..MaxParts } }

\* the agent run of a mention has returned: its text, and the citation map
\* of the RAGState of the request, empty or as format_search_results filled
\* it in for a search tool call
MentionInit ==
    /\ p_pc = "agent"
    /\ p_response \in MentionTexts
    /\ p_map \in {EmptyDict, LinkMap}
    /\ p_said = <<>>

MentionIdle ==
    /\ p_pc = "idle"
    /\ p_response = <<>>
    /\ p_map = EmptyDict
    /\ p_said = <<>>

\* handle_mention from the result of the agent run to the reply:
\* response = filter_response_for_slack(response), with neither the map nor
\* a client; the fixed text for an empty response; say(text=response).
\* (save_messages and trim_history, between the two: the conversation store.)
handle_mention ==
    /\ p_pc = "agent"
    /\ p_said' = Pipe(filter_response_for_slack(p_response, EmptyDict, NoClient),
                      LAMBDA filtered : IF filtered = <<>> THEN NoResponse ELSE filtered)
    /\ p_pc' = "replied"
    /\ UNCHANGED <<p_response, p_map>>
    /\ UNCHANGED notMentionVars

MentionNext == handle_mention

-----------------------------------------------------------------------------
(* ConversationStore.save_messages and trim_history                        *)
(* (src/src/conversation_store.py) as handle_mention calls them            *)

Handlers == 1..MaxHandlers

\* messages[-keep_count:]
LastOf(messages, keep_count) ==
    IF keep_count = 0 THEN messages
    ELSE SubSeq(messages, Max(1, Len(messages) - keep_count + 1), Len(messages))

\* update_one with $push ... $each and upsert=True
PushEach(doc, serialized) == [exists |-> TRUE, messages |-> doc.messages \o serialized]

\* update_one with $set of the messages, no upsert
SetMessages(doc, trimmed) ==
    IF doc.exists THEN [exists |-> TRUE, messages |-> trimmed] ELSE doc

StoreInit ==
    /\ c_doc = [exists |-> FALSE, messages |-> <<>>]
    /\ c_pc = [h \in Handlers |-> "idle"]
    /\ c_read = [h \in Handlers |-> <<>>]
    /\ c_sent = 0
    /\ c_saved = <<>>

StoreIdle ==
    /\ c_doc = [exists |-> FALSE, messages |-> <<>>]
    /\ c_pc = <<>>
    /\ c_read = <<>>
    /\ c_sent = 0
    /\ c_saved = <<>>

\* save_messages(channel_id, user_id, new_messages) of handler h with n new
\* messages: one update_one that appends them
SaveMessages(h, n) ==
    /\ c_pc[h] = "idle"
    /\ c_sent + n <= MaxMessages
    /\ c_doc' = PushEach(c_doc, [i \in 1..n |-> c_sent + i])
    /\ c_saved' = c_saved \o [i \in 1..n |-> c_sent + i]
    /\ c_sent' = c_sent + n
    /\ c_pc' = [c_pc EXCEPT ![h] = "saved"]
    /\ UNCHANGED c_read
    /\ UNCHANGED notStoreVars

\* save_messages whose update_one raises: logged, nothing is saved
SaveMessagesFails(h, n) ==
    /\ c_pc[h] = "idle"
    /\ c_sent + n <= MaxMessages
    /\ c_sent' = c_sent + n
    /\ c_pc' = [c_pc EXCEPT ![h] = "saved"]
    /\ UNCHANGED <<c_doc, c_read, c_saved>>
    /\ UNCHANGED notStoreVars

\* trim_history(channel_id, user_id, keep_count) up to its update: find_one;
\* it returns without a document and with no more than keep_count messages
TrimHistoryReads(h, keep_count) ==
    /\ c_pc[h] = "saved"
    /\ IF ~c_doc.exists \/ Len(c_doc.messages) <= keep_count
       THEN /\ c_pc' = [c_pc EXCEPT ![h] = "idle"]
            /\ UNCHANGED c_read
       ELSE /\ c_pc' = [c_pc EXCEPT ![h] = "trimming"]
            /\ c_read' = [c_read EXCEPT ![h] = c_doc.messages]
    /\ UNCHANGED <<c_doc, c_sent, c_saved>>
    /\ UNCHANGED notStoreVars

\* trim_history from its update on: the messages of the document are set to
\* the last keep_count of the messages that were read
TrimHistoryWrites(h, keep_count) ==
    /\ c_pc[h] = "trimming"
    /\ c_doc' = SetMessages(c_doc, LastOf(c_read[h], keep_count))
    /\ c_pc' = [c_pc EXCEPT ![h] = "idle"]
    /\ c_read' = [c_read EXCEPT ![h] = <<>>]
    /\ UNCHANGED <<c_sent, c_saved>>
    /\ UNCHANGED notStoreVars

\* find_one or update_one of trim_history raises: logged, nothing is changed
TrimHistoryFails(h) ==
    /\ c_pc[h] \in {"saved", "trimming"}
    /\ c_pc' = [c_pc EXCEPT ![h] = "idle"]
    /\ c_read' = [c_read EXCEPT ![h] = <<>>]
    /\ UNCHANGED <<c_doc, c_sent, c_saved>>
    /\ UNCHANGED notStoreVars

\* handle_mention, lines 115-120, in each handler: save_messages of the new
\* messages of the run, then trim_history
StoreNext ==
    \E h \in Handlers :
        \/ \E n \in 1..2 : SaveMessages(h, n)
        \/ \E n \in 1..2 : SaveMessagesFails(h, n)
        \/ TrimHistoryReads(h, KeepCount)
        \/ TrimHistoryWrites(h, KeepCount)
        \/ TrimHistoryFails(h)

-----------------------------------------------------------------------------
(* Specifications *)

\* no utility is called
UtilIdle ==
    /\ ErrorIdle /\ LinkIdle /\ MarkdownIdle /\ SyncIdle /\ MentionIdle
    /\ StoreIdle

\* one streamed agent run
Init == StreamInit /\ RRFIdle /\ HybridIdle /\ CiteIdle /\ AdapterIdle /\ UtilIdle

SpecStream == Init /\ [][StreamNext]_vars

\* one call of reciprocal_rank_fusion on two ranked lists
InitRRF == RRFInit /\ StreamIdle /\ HybridIdle /\ CiteIdle /\ AdapterIdle /\ UtilIdle

NextRRF == RRFCall

SpecRRF == InitRRF /\ [][NextRRF]_vars

\* one call of hybrid_search
InitHybrid == HybridInit /\ StreamIdle /\ RRFIdle /\ CiteIdle /\ AdapterIdle /\ UtilIdle

SpecHybrid == InitHybrid /\ [][HybridNext]_vars

\* one call of format_search_results, and get_book_id calls of other
\* requests on the same KomgaClient while it runs
InitCite == CiteInit /\ StreamIdle /\ RRFIdle /\ HybridIdle /\ AdapterIdle /\ UtilIdle

SpecCite == InitCite /\ [][CiteNext]_vars

\* one adapter process answering questions one after the other
InitAdapter == AdapterInit /\ StreamIdle /\ RRFIdle /\ HybridIdle /\ UtilIdle

SpecAdapter == InitAdapter /\ [][AdapterNext]_vars

\* the handler of one failed agent run
InitError ==
    /\ ErrorInit /\ StreamIdle /\ RRFIdle /\ HybridIdle /\ CiteIdle
    /\ AdapterIdle /\ LinkIdle /\ MarkdownIdle /\ SyncIdle /\ MentionIdle
    /\ StoreIdle

SpecError == InitError /\ [][ErrorNext]_vars

\* linkify_citations on a text, and again on what it returned
InitLink ==
    /\ LinkInit /\ StreamIdle /\ RRFIdle /\ HybridIdle /\ CiteIdle
    /\ AdapterIdle /\ ErrorIdle /\ MarkdownIdle /\ SyncIdle /\ MentionIdle
    /\ StoreIdle

SpecLink == InitLink /\ [][LinkNext]_vars

\* markdown_to_slack on a text
InitMarkdown ==
    /\ MarkdownInit /\ StreamIdle /\ RRFIdle /\ HybridIdle /\ CiteIdle
    /\ AdapterIdle /\ ErrorIdle /\ LinkIdle /\ SyncIdle /\ MentionIdle
    /\ StoreIdle

SpecMarkdown == InitMarkdown /\ [][MarkdownNext]_vars

\* calls of get_source_url_sync and of get_book_id on one KomgaClient
InitSync ==
    /\ SyncInit /\ StreamIdle /\ RRFIdle /\ HybridIdle /\ AdapterIdle
    /\ ErrorIdle /\ LinkIdle /\ MarkdownIdle /\ MentionIdle /\ StoreIdle

SpecSync == InitSync /\ [][SyncNext]_vars

\* the reply of handle_mention to one mention
InitMention ==
    /\ MentionInit /\ StreamIdle /\ RRFIdle /\ HybridIdle /\ CiteIdle
    /\ AdapterIdle /\ ErrorIdle /\ LinkIdle /\ MarkdownIdle /\ SyncIdle
    /\ StoreIdle

SpecMention == InitMention /\ [][MentionNext]_vars

\* handlers of the mentions of one user in one channel
InitStore ==
    /\ StoreInit /\ StreamIdle /\ RRFIdle /\ HybridIdle /\ CiteIdle
    /\ AdapterIdle /\ ErrorIdle /\ LinkIdle /\ MarkdownIdle /\ SyncIdle
    /\ MentionIdle

SpecStore == InitStore /\ [][StoreNext]_vars

-----------------------------------------------------------------------------
(* Properties of the StreamFilter and its driver (checked under SpecStream) *)

\* the number of places at which p occurs in s
Occurrences(s, p) == Cardinality({ i \in 1..(Len(s) + 1) : MatchAt(s, p, i) })

\* s with everything up to and including its first '</think>' removed
\* (s itself when it holds no '</think>')
WithoutReasoningSpan(s) ==
    IF Contains(s, CloseTag)
    THEN LET p == CHOOSE i \in 1..Len(s) :
                      /\ MatchAt(s, CloseTag, i)
                      /\ \A j \in 1..(i - 1) : ~MatchAt(s, CloseTag, j)
         IN  SubSeq(s, p + Len(CloseTag), Len(s))
    ELSE s

\* the current model request has streamed all its text and the driver has
\* run its end-of-stream flush
RequestFinished == s_pc \in {"nodes", "done"} /\ requests >= 1

\* C1: chunk-boundary independence.  When a model request whose text S holds
\* exactly one '</think>' has been streamed to its end, in whatever chunks,
\* everything delivered for it (the filter's outputs and the end-of-stream
\* flush) is S with the text up to and including the tag removed.
C1_ChunkBoundaryIndependence ==
    (RequestFinished /\ Occurrences(received, CloseTag) = 1)
        => emitted = WithoutReasoningSpan(received)

\* a request "<think>a</think> b " was streamed and " b " was delivered
C1_Witness ==
    /\ RequestFinished
    /\ received = OpenTag \o <<"a">> \o CloseTag \o <<" ", "b", " ">>
    /\ emitted = <<" ", "b", " ">>

\* C2: a request whose text holds no '</think>' delivers nothing while it
\* streams (all of it is buffered), and once it has ended the flush has
\* delivered the whole text, unmodified and once.
C2_NoTagFlushesAll ==
    ~Contains(received, CloseTag) =>
        /\ (s_pc = "streaming" => emitted = <<>> /\ think_buffer = received)
        /\ (RequestFinished => emitted = received /\ think_buffer = <<>>)

\* a request ending in the partial tag "</" was flushed whole
C2_Witness ==
    /\ RequestFinished
    /\ received = <<"a", "<", "/", "t", "b", "<", "/">>
    /\ emitted = received

\* C3: conservation.  After every chunk, what has been delivered followed by
\* the buffer is the text received so far without its reasoning span.
C3_Conservation ==
    emitted \o think_buffer = WithoutReasoningSpan(received)

\* mid-stream, after the tag: something delivered, more text to come
C3_Witness ==
    /\ s_pc = "streaming"
    /\ Contains(received, CloseTag)
    /\ emitted # <<>>
    /\ input # <<>>
    /\ Len(received) > Len(emitted) + Len(CloseTag)

\* C4: while BUFFERING, for every next chunk (the empty one included) that
\* does not complete a '</think>', the filter returns no output, the buffer
\* buffer + chunk and the state BUFFERING, however long the buffer is and
\* whether or not it ends in a partial tag; so nothing is delivered before
\* the tag has arrived.
C4_BufferingEmitsNothing ==
    /\ (s_pc = "streaming" /\ think_state = "buffering") =>
          \A n \in 0..Min(MaxChunk, Len(input)) :
              LET chunk == Take(input, n)
                  r == filter_think_streaming(chunk, think_buffer, think_state)
              IN  ~Contains(think_buffer \o chunk, CloseTag) =>
                      /\ r.out = <<>>
                      /\ r.buffer = think_buffer \o chunk
                      /\ r.state = "buffering"
    /\ (s_pc = "streaming" /\ ~Contains(received, CloseTag)) => emitted = <<>>

\* eleven characters are buffered, the last two a partial tag, none delivered
C4_Witness ==
    /\ s_pc = "streaming"
    /\ think_state = "buffering"
    /\ think_buffer = OpenTag \o <<"a", "b", "<", "/">>
    /\ emitted = <<>>

\* C5 (the claim as stated): the response of the AgentResult is the filtered
\* text; when the streamed model output holds one '</think>', the response
\* holds no '</think>'.
C5_ResponseIsFiltered ==
    (s_pc = "done" /\ Occurrences(response_text, CloseTag) = 1)
        => ~Contains(response, CloseTag)

-----------------------------------------------------------------------------
(* Properties of reciprocal_rank_fusion (checked under SpecRRF)            *)

\* the sum of 1/(k + r), k = 60, over the 0-indexed ranks r from i - 1 on at
\* which `results` holds chunk id (on the scale RRFScale)
RECURSIVE ReciprocalRankSum(_, _, _)
ReciprocalRankSum(results, id, i) ==
    IF i > Len(results) THEN 0
    ELSE (IF results[i].chunk_id = id THEN RRFScale \div (60 + (i - 1)) ELSE 0)
         + ReciprocalRankSum(results, id, i + 1)

\* the chunk ids a list of results holds
IdsIn(results) == { results[i].chunk_id : i \in 1..Len(results) }

\* the place at which chunk id is first met when the lists are scanned in
\* order, each from its best result down
FirstSeen(lists, id) ==
    LET all == lists[1] \o lists[2]
    IN  CHOOSE i \in 1..Len(all) :
            /\ all[i].chunk_id = id
            /\ \A j \in 1..(i - 1) : all[j].chunk_id # id

\* C6: the fused score of every chunk id of the input is the sum of
\* 1/(60 + r) over the lists and ranks r at which it occurs, and for a
\* chunk id in both lists it is strictly greater than the sum either list
\* alone gives it.
C6_FusedScoreIsReciprocalRankSum ==
    rrf_pc = "returned" =>
        /\ \A id \in IdsIn(rrf_lists[1]) \cup IdsIn(rrf_lists[2]) :
               \E j \in 1..Len(rrf_out) : rrf_out[j].chunk_id = id
        /\ \A j \in 1..Len(rrf_out) :
               LET id == rrf_out[j].chunk_id
                   s1 == ReciprocalRankSum(rrf_lists[1], id, 1)
                   s2 == ReciprocalRankSum(rrf_lists[2], id, 1)
               IN  /\ rrf_out[j].similarity = s1 + s2
                   /\ (s1 > 0 /\ s2 > 0) =>
                          /\ rrf_out[j].similarity > s1
                          /\ rrf_out[j].similarity > s2

\* a chunk id that is in both lists, at different ranks, has been scored
C6_Witness ==
    /\ rrf_pc = "returned"
    /\ \E j \in 1..Len(rrf_out) :
           LET id == rrf_out[j].chunk_id
               s1 == ReciprocalRankSum(rrf_lists[1], id, 1)
               s2 == ReciprocalRankSum(rrf_lists[2], id, 1)
           IN  s1 > 0 /\ s2 > 0 /\ s1 # s2 /\ rrf_out[j].similarity = s1 + s2

\* C7: the output holds each chunk id of the input lists exactly once, and
\* no other chunk id.
C7_EachChunkOnce ==
    rrf_pc = "returned" =>
        /\ IdsIn(rrf_out) = IdsIn(rrf_lists[1]) \cup IdsIn(rrf_lists[2])
        /\ \A i, j \in 1..Len(rrf_out) :
               rrf_out[i].chunk_id = rrf_out[j].chunk_id => i = j

\* a chunk id that is twice in the first list and also in the second
\* list is once in the output
C7_Witness ==
    /\ rrf_pc = "returned"
    /\ \E i, j \in 1..Len(rrf_lists[1]) :
           /\ i # j
           /\ rrf_lists[1][i].chunk_id = rrf_lists[1][j].chunk_id
           /\ rrf_lists[1][i].chunk_id \in IdsIn(rrf_lists[2])
    /\ Len(rrf_out) >= 2
    /\ Len(rrf_out) < Len(rrf_lists[1]) + Len(rrf_lists[2])

\* C8: the output is in descending order of fused score, and chunk ids of
\* equal fused score are in the order in which they were first seen (first
\* list before second, best rank first).
C8_DescendingStable ==
    rrf_pc = "returned" =>
        \A i, j \in 1..Len(rrf_out) :
            i < j =>
                /\ rrf_out[i].similarity >= rrf_out[j].similarity
                /\ rrf_out[i].similarity = rrf_out[j].similarity =>
                       FirstSeen(rrf_lists, rrf_out[i].chunk_id)
                           < FirstSeen(rrf_lists, rrf_out[j].chunk_id)

\* two chunk ids tie, and a chunk id seen later was sorted before one seen
\* earlier
C8_Witness ==
    /\ rrf_pc = "returned"
    /\ \E i, j \in 1..Len(rrf_out) :
           i < j /\ rrf_out[i].similarity = rrf_out[j].similarity
    /\ \E i, j \in 1..Len(rrf_out) :
           /\ i < j
           /\ rrf_out[i].similarity > rrf_out[j].similarity
           /\ FirstSeen(rrf_lists, rrf_out[i].chunk_id)
                  > FirstSeen(rrf_lists, rrf_out[j].chunk_id)

-----------------------------------------------------------------------------
(* Properties of hybrid_search (checked under SpecHybrid)                  *)

\* the match count the caller asked for (the default when it gave none)
Requested == IF h_match_count = None THEN DefaultMatchCount ELSE h_match_count

\* min(match_count, max_match_count)
Allowed == IF Requested <= MaxMatchCount THEN Requested ELSE MaxMatchCount

\* the chunk ids of a list of results, in order
IdsOf(results) == [i \in 1..Len(results) |-> results[i].chunk_id]

\* the first n elements of a list
Prefix(list, n) == [i \in 1..(IF n <= Len(list) THEN n ELSE Len(list)) |-> list[i]]

\* C9: once hybrid_search has called a channel its match_count is the
\* clamped one, every channel call it makes asks for a count computed from
\* the clamped match_count (2 x on the gather, 1 x on the fallback), and on
\* every return (both empty, fused, vector-only fallback) the result holds
\* at most min(match_count, max_match_count) results.
C9_ClampedBeforeChannels ==
    /\ h_calls # <<>> => match_count = Allowed
    /\ \A c \in 1..Len(h_calls) :
           h_calls[c].match_count = (IF c <= 2 THEN 2 * Allowed ELSE Allowed)
    /\ h_pc = "done" => Len(h_result) <= Allowed

\* more was asked for than the maximum, the fused list was longer than the
\* maximum, and the maximum was returned
C9_Witness ==
    /\ h_pc = "done"
    /\ h_path = "fused"
    /\ Requested > MaxMatchCount
    /\ Cardinality(IdsIn(sem_results) \cup IdsIn(txt_results)) > MaxMatchCount
    /\ Len(h_result) = MaxMatchCount

\* the vector-only fallback returned the maximum although more was asked for
C9_WitnessFallback ==
    /\ h_pc = "done"
    /\ h_path = "fallback"
    /\ Requested > MaxMatchCount
    /\ Len(h_result) = MaxMatchCount

\* C10: hybrid_search goes on from the gather only when both channels have
\* run to their end (an empty or failed channel does not cancel the other);
\* and when it returns a fused result and exactly one of the two channels
\* came back empty (it failed, or matched nothing), the result is the other
\* channel's results in their rank order, cut to match_count.
C10_FailureIsolation ==
    /\ h_pc \in {"fallback", "done"} => (sem_status = "done" /\ txt_status = "done")
    /\ (h_pc = "done" /\ h_path = "fused") =>
           /\ (sem_results = <<>> /\ txt_results # <<>>) =>
                  IdsOf(h_result) = Prefix(IdsOf(txt_results), Allowed)
           /\ (txt_results = <<>> /\ sem_results # <<>>) =>
                  IdsOf(h_result) = Prefix(IdsOf(sem_results), Allowed)

\* the semantic channel failed although the vector index had hits; the text
\* channel's results, more than match_count of them and not in the order of
\* their ids, were returned cut to match_count
C10_Witness ==
    /\ h_pc = "done"
    /\ h_path = "fused"
    /\ h_filter = "None"
    /\ Allowed >= 2
    /\ vec_hits # <<>>
    /\ sem_results = <<>>
    /\ txt_status = "done"
    /\ Len(txt_results) > Allowed
    /\ txt_results[1].chunk_id > txt_results[2].chunk_id
    /\ IdsOf(h_result) = Prefix(IdsOf(txt_results), Allowed)

\* C11: when both channels came back with the empty list, hybrid_search
\* returns the empty list through its `return []`: not through the fusion,
\* and with no third channel call (the vector-only fallback is not invoked,
\* and the except clause is never entered).
C11_BothEmptyReturnsEmpty ==
    /\ h_pc = "fallback" => ~(sem_results = <<>> /\ txt_results = <<>>)
    /\ (h_pc = "done" /\ sem_results = <<>> /\ txt_results = <<>>) =>
           /\ h_path = "both_empty"
           /\ h_result = <<>>
           /\ Len(h_calls) = 2

\* both indexes had hits for the query, none of them of a source matching
\* the filter: both channels came back empty without failing, and
\* hybrid_search returned the empty list after its two channel calls
C11_Witness ==
    /\ h_pc = "done"
    /\ h_path = "both_empty"
    /\ h_filter # "None"
    /\ vec_hits # <<>>
    /\ txt_hits # <<>>
    /\ Allowed > 0
    /\ sem_results = <<>>
    /\ txt_results = <<>>
    /\ h_result = <<>>
    /\ Len(h_calls) = 2

\* the ids the vector index alone gives for the call: its top hits (three
\* times as many when filtering), those of a matching source, cut to the
\* clamped match_count
VectorOnlyIds ==
    LET top == Prefix(vec_hits, IF h_filter # "None" THEN 3 * Allowed ELSE Allowed)
        kept == SelectSeq(top, LAMBDA id :
                    h_filter = "None" \/ RegexMatches(h_filter, SourceOf(id)))
    IN  Prefix(kept, Allowed)

\* C12: hybrid_search always ends by returning a list (one of its three
\* returns), never by raising.  When it returned through its except clause
\* it made exactly one more channel call, a semantic_search with the
\* caller's source_filter, and it returned either what the vector index
\* alone gives (with the vector channel's scores) or, when that call failed
\* too, the empty list.  Without an error there is no third call.
C12_FallbackVectorOnly ==
    /\ h_pc = "done" => h_path \in {"both_empty", "fused", "fallback"}
    /\ h_path # "fallback" => Len(h_calls) <= 2
    /\ h_path = "fallback" =>
           /\ h_pc = "done"
           /\ Len(h_calls) = 3
           /\ h_calls[3].channel = "semantic"
           /\ h_calls[3].source_filter = h_filter
           /\ \/ h_result = <<>>
              \/ /\ IdsOf(h_result) = VectorOnlyIds
                 /\ \A i \in 1..Len(h_result) : \E r \in 1..Len(vec_hits) :
                        /\ vec_hits[r] = h_result[i].chunk_id
                        /\ h_result[i].similarity = ChannelScore("vector", r - 1)

\* an error after the gather, a source_filter in the call, a vector index
\* whose first hit is of another source: the fallback returned the
\* vector-only results of the filtered search
C12_Witness ==
    /\ h_pc = "done"
    /\ h_path = "fallback"
    /\ h_filter # "None"
    /\ Len(vec_hits) >= 2
    /\ ~RegexMatches(h_filter, SourceOf(vec_hits[1]))
    /\ h_result # <<>>
    /\ IdsOf(h_result) = VectorOnlyIds
    /\ Len(h_calls) = 3

C14_FilterHolds ==
    (h_pc = "done" /\ h_filter # "None") =>
        \A i \in 1..Len(h_result) : RegexMatches(h_filter, h_result[i].document_source)

\* fused path: both indexes rank a chunk of another source first, and the
\* returned list is not empty
C14_Witness ==
    /\ h_pc = "done"
    /\ h_path = "fused"
    /\ h_filter # "None"
    /\ vec_hits # <<>>
    /\ txt_hits # <<>>
    /\ ~RegexMatches(h_filter, SourceOf(vec_hits[1]))
    /\ ~RegexMatches(h_filter, SourceOf(txt_hits[1]))
    /\ h_result # <<>>

\* C15: a channel task that has returned holds at most
\* min(n, max_match_count) results, n being the match_count it was called
\* with.
C15_ChannelWithinCount ==
    /\ sem_status = "done" =>
           Len(sem_results) <= Min(h_calls[1].match_count, MaxMatchCount)
    /\ txt_status = "done" =>
           Len(txt_results) <= Min(h_calls[2].match_count, MaxMatchCount)

-----------------------------------------------------------------------------
(* Properties of the book-link cache and of format_search_results          *)
(* (checked under SpecCite)                                                *)

\* another request's get_book_id is called in this step
LookupCalled == o_calls' = o_calls + 1

\* another request's get_book_id returns in this step from its catalog
\* request
LookupAnswered == o_pc = "http" /\ o_pc' = "done"

\* a match of the catalog is taken into the cache in a step: exactly the
\* entry filename -> id is set, the cache file then holds the cache (or is
\* as it was, when writing it failed)
Cached(filename, id) ==
    /\ id # NoBook
    /\ DOMAIN k_cache' = (DOMAIN k_cache) \cup {filename}
    /\ k_cache'[filename] = id
    /\ \A x \in (DOMAIN k_cache) \ {filename} : k_cache'[x] = k_cache[x]
    /\ k_disk' \in {k_cache', k_disk}

C16_WitnessMiss ==
    /\ o_pc = "done"
    /\ ~o_hit
    /\ o_answer = "found"
    /\ o_result = "b2"
    /\ k_cache[o_file] = "b2"
    /\ k_disk = k_cache

\* how a failed catalog request is recorded
FailedLookups == {"error", "no_match"}

\* C17: a get_book_id whose catalog request fails or finds no book returns
\* None and leaves the cache and the cache file as they are, in another
\* request and in the formatter alike; the formatter never ends but by
\* returning; and what it returns holds, for every result in order, the
\* header of that result with its page information, without a link where
\* the result's lookup failed.
C17_FailedLookupDegrades ==
    /\ [](f_pc \in {"call", "first_lookup", "page_lookup", "done"})
    /\ [](f_pc = "done" /\ f_results # <<>> =>
            /\ Len(f_output.parts) = Len(f_results)
            /\ Len(f_lookups) = Len(f_results)
            /\ \A n \in 1..Len(f_results) :
                   /\ f_output.parts[n].source = f_results[n].document_source
                   /\ f_output.parts[n].page_info = PageInfo(f_results[n].page_numbers)
                   /\ f_lookups[n] \in FailedLookups =>
                          f_output.parts[n].source_link = NoUrl)
    /\ [][ /\ (LookupAnswered /\ o_answer' \in FailedLookups) =>
                  /\ o_result' = NoBook
                  /\ k_cache' = k_cache
                  /\ k_disk' = k_disk
           /\ (f_pc = "first_lookup" /\ f_lookups' # f_lookups
                   /\ f_lookups'[f_i] \in FailedLookups) =>
                  /\ k_cache' = k_cache
                  /\ k_disk' = k_disk
         ]_vars

\* the lookup of the first result failed on the network and that of the
\* second found no book; the formatter returned both headers, without links
C17_Witness ==
    /\ f_pc = "done"
    /\ Len(f_results) = 2
    /\ f_lookups = <<"error", "no_match">>
    /\ Len(f_output.parts) = 2
    /\ f_output.parts[1].source_link = NoUrl
    /\ f_output.parts[2].source_link = NoUrl
    /\ f_output.parts[1].page_info[1] = ", pages "

\* C18 as stated: no step changes the id the cache holds for a filename, or
\* removes a filename from the cache.
C18_AppendOnly ==
    [][ \A x \in DOMAIN k_cache :
            x \in DOMAIN k_cache' /\ k_cache'[x] = k_cache[x] ]_vars

\* C19: the call of format_search_results with no results returns the fixed
\* message in that step, sends no catalog request (no lookup is made), and
\* leaves the citation map, the cache and the cache file as they are.
C19_NoResultsFixedMessage ==
    [][ (f_pc = "call" /\ f_pc' # "call" /\ f_results = <<>>) =>
            /\ f_pc' = "done"
            /\ f_output' = NoInformation
            /\ f_lookups' = <<>>
            /\ k_requests' = k_requests
            /\ citation_map' = citation_map
            /\ k_cache' = k_cache
            /\ k_disk' = k_disk
      ]_vars

\* no results, a citation map with an entry, a configured client with a
\* cached book and another request's lookup in flight: the fixed message
C19_Witness ==
    /\ f_pc = "done"
    /\ f_results = <<>>
    /\ f_output = NoInformation
    /\ citation_map = StaleMap
    /\ k_configured
    /\ k_cache # EmptyDict
    /\ o_calls = 1
    /\ f_sink

\* C20: when format_search_results was given a state and has returned,
\* then for every result with page numbers whose lookup gave a URL (its
\* header carries the link) the citation map holds, for every page of the
\* result, an entry (document_source, page) -> the link to that page of a
\* book.
C20_EveryPageRecorded ==
    (f_pc = "done" /\ f_sink) =>
        \A n \in 1..Len(f_results) :
            (f_results[n].page_numbers # <<>> /\ f_output.parts[n].source_link # NoUrl) =>
                \A q \in 1..Len(f_results[n].page_numbers) :
                    LET key == <<f_results[n].document_source, f_results[n].page_numbers[q]>>
                    IN  /\ key \in DOMAIN citation_map
                        /\ citation_map[key].page = f_results[n].page_numbers[q]
                        /\ citation_map[key].book_id # NoBook

\* a result of pages 42-44 whose book the catalog found: the map, empty
\* before, holds the links to pages 42, 43 and 44
C20_Witness ==
    /\ f_pc = "done"
    /\ f_sink
    /\ Len(f_results) >= 1
    /\ f_results[1].page_numbers = <<42, 43, 44>>
    /\ f_lookups[1] = "found"
    /\ DOMAIN citation_map = {<<"GRR.pdf", 42>>, <<"GRR.pdf", 43>>, <<"GRR.pdf", 44>>}
    /\ citation_map[<<"GRR.pdf", 43>>] = get_page_url("b2", 43)

-----------------------------------------------------------------------------
(* Properties of the adapters (checked under SpecAdapter)                  *)

\* C21: whenever an adapter takes a question, the citation map of the
\* RAGState it hands to the agent (and so to the formatter) is empty.
C21_MapEmptyAtRequestStart ==
    [][ a_requests' = a_requests + 1 => citation_map' = EmptyDict ]_vars


\* C25: in what format_search_results returns, the page information of a
\* result with one page number N is ", page N", that of a result with more
\* is ", pages F-L" with F the first and L the last number of the list and
\* nothing of the numbers in between, and that of a result without page
\* numbers is empty.
C25_PageRange ==
    f_pc = "done" /\ f_results # <<>> =>
        \A n \in 1..Len(f_results) :
            LET pages == f_results[n].page_numbers
                info == f_output.parts[n].page_info
            IN  /\ pages = <<>> => info = <<>>
                /\ Len(pages) = 1 => info = <<", page ">> \o Str(pages[1])
                /\ Len(pages) > 1 =>
                       /\ info = <<", pages ">> \o Str(pages[1]) \o <<"-">>
                                     \o Str(pages[Len(pages)])
                       /\ Len(info) = 2 + Len(Str(pages[1])) + Len(Str(pages[Len(pages)]))

\* pages 42, 43, 44 rendered as ", pages 42-44", before a result with the
\* one page 7
C25_Witness ==
    /\ f_pc = "done"
    /\ Len(f_results) = 2
    /\ f_results[1].page_numbers = <<42, 43, 44>>
    /\ f_output.parts[1].page_info = <<", pages ", "4", "2", "-", "4", "4">>
    /\ f_results[2].page_numbers = <<7>>
    /\ f_output.parts[2].page_info = <<", page ", "7">>

\* the states stream_agent is left in by an exception or a cancellation
Aborted == {"failed", "cancelled"}

\* the step is a text event of the current model request
TextStep == received' # received /\ requests' = requests

\* C27: once the filter of a model request has reached NORMAL, no later
\* chunk of that request (whatever it holds) puts it back into BUFFERING.
C27_NormalIsTerminal ==
    [][ (think_state = "normal" /\ requests' = requests) => think_state' = "normal" ]_vars

\* a request is in NORMAL and text holding a further '</think>' has come
\* after the first one
C27_Witness ==
    /\ s_pc = "streaming"
    /\ think_state = "normal"
    /\ Occurrences(received, CloseTag) = 2
    /\ Contains(emitted, CloseTag)

\* C28: in every state NORMAL comes with an empty buffer; a chunk that
\* arrives in NORMAL is delivered as it is and leaves the buffer empty; and
\* of the '</think>' a request has streamed, all but the first are delivered.
C28_NormalPassesThrough ==
    /\ [](think_state = "normal" => think_buffer = <<>>)
    /\ [](RequestFinished /\ Contains(received, CloseTag) =>
              Occurrences(emitted, CloseTag) = Occurrences(received, CloseTag) - 1)
    /\ [][ (think_state = "normal" /\ TextStep) =>
                /\ emitted' = emitted \o Drop(received', Len(received))
                /\ think_buffer' = <<>> ]_vars

\* "b</think>c" came in one chunk after the first '</think>' and was
\* delivered whole
C28_Witness ==
    /\ RequestFinished
    /\ think_state = "normal"
    /\ received = CloseTag \o <<"b">> \o CloseTag \o <<"c">>
    /\ emitted = <<"b">> \o CloseTag \o <<"c">>
    /\ think_buffer = <<>>

\* C29: what the consumer has been given only grows at its end; a text
\* event gives it the output of the filter, applied once to that chunk in
\* the state the chunk before left; the end of a request's stream gives it
\* the buffer that is left; and a model request starts only when the one
\* before has ended its stream and flushed, so that everything delivered for
\* a request lies after everything delivered for the requests before it.
C29_ArrivalOrder ==
    /\ [](EndsWith(delivered, emitted))
    /\ [][ /\ Len(delivered') >= Len(delivered)
           /\ Take(delivered', Len(delivered)) = delivered
           /\ TextStep =>
                  LET r == filter_think_streaming(Drop(received', Len(received)),
                                                  think_buffer, think_state)
                  IN  /\ delivered' = delivered \o r.out
                      /\ think_buffer' = r.buffer
                      /\ think_state' = r.state
           /\ (s_pc = "streaming" /\ s_pc' = "nodes") =>
                  /\ input = <<>>
                  /\ delivered' = delivered \o think_buffer
                  /\ think_buffer' = <<>>
           /\ requests' # requests =>
                  /\ s_pc = "nodes"
                  /\ think_buffer = <<>>
                  /\ delivered' = delivered
         ]_vars

\* a first request without a tag was flushed whole, then a second request
\* delivered the text after its tag, chunk by chunk
C29_Witness ==
    /\ requests = 2
    /\ RequestFinished
    /\ emitted = <<" ", "b", " ">>
    /\ delivered = <<"a", "<", "/", "t", "b", "<", "/">> \o <<" ", "b", " ">>

\* C30: a step that aborts the stream hands nothing to the consumer, and
\* after it nothing is handed to the consumer any more: the buffer is never
\* delivered and nothing is delivered a second time.
C30_AbortDiscardsBuffer ==
    [][ /\ (s_pc = "streaming" /\ s_pc' \in Aborted) =>
               delivered' = delivered /\ emitted' = emitted
        /\ s_pc \in Aborted => delivered' = delivered /\ s_pc' = s_pc
      ]_vars

\* the second request was aborted with text in the buffer; the consumer has
\* what the first request delivered and nothing of the second
C30_Witness ==
    /\ s_pc \in Aborted
    /\ requests = 2
    /\ think_state = "buffering"
    /\ think_buffer = OpenTag \o <<"a">>
    /\ emitted = <<>>
    /\ delivered = <<" ", "b", " ">>

-----------------------------------------------------------------------------
(* Properties of the error handler (checked under SpecError)               *)

\* the short messages classify_llm_error gives authentication errors and
\* model / configuration errors
AuthOrConfig == {"LLM authentication failed", "LLM access denied",
                 "LLM authentication error", "LLM endpoint not found",
                 "LLM model not found"}

\* C26 as stated: is_retryable_error is true for timeouts, HTTP 429 and HTTP
\* 5xx, and false for every error that classify_llm_error takes for an
\* authentication or a model / configuration error.
C26_RetryConsistent ==
    e_pc = "handled" =>
        /\ e_error.type \in {"ConnectTimeout", "ReadTimeout"} => e_retryable
        /\ (e_error.type = "HTTPStatusError"
               /\ (e_error.status_code = 429 \/ e_error.status_code >= 500)) => e_retryable
        /\ e_short \in AuthOrConfig => ~e_retryable

-----------------------------------------------------------------------------
(* Properties of linkify_citations (checked under SpecLink)                *)

\* C23 as stated: when no citation of the text resolves through the
\* citation map or the client's cache, linkify_citations returns the text
\* it was given.
C23_MissLeavesText ==
    (l_pc \in {"linkified", "twice"} /\ l_hits = 0) => l_out = l_text

\* C24 as stated: linkify_citations applied to its own output returns that
\* output.
C24_Idempotent ==
    l_pc = "twice" => l_out2 = l_out

\* the fenced code blocks of a text, as the pattern of the function finds them
CodeBlocksOf(text) == ProtectCodeBlocks(text).saved

\* the inline code spans of a text outside its code blocks, as the pattern of
\* the function finds them (a span that runs over a code block holds it)
InlineCodeOf(text) ==
    Pipe(ProtectCodeBlocks(text),
         LAMBDA blocks :
             Pipe(ProtectInlineCode(blocks.text).saved,
                  LAMBDA saved :
                      [i \in 1..Len(saved) |->
                          Restore(saved[i], CodeBlockName, blocks.saved, 1)]))

ListsHolding(lists, chunk_id) ==
    { n \in 1..Len(lists) : \E i \in 1..Len(lists[n]) : lists[n][i].chunk_id = chunk_id }

FirstSeenObject(lists, chunk_id) ==
    LET results == lists[Least(ListsHolding(lists, chunk_id))]
    IN  results[Least({ i \in 1..Len(results) : results[i].chunk_id = chunk_id })]

\* C31: every result of reciprocal_rank_fusion is the object its chunk_id
\* was first seen as, in the first input list that holds it, with the same
\* fields except for the score, which is the fused value; the input lists
\* are left as they were.
C31_FirstSeenObject ==
    [][rrf_pc = "call" =>
          /\ rrf_lists' = rrf_lists
          /\ \A i \in 1..Len(rrf_out') :
                 /\ ListsHolding(rrf_lists, rrf_out'[i].chunk_id) # {}
                 /\ rrf_out'[i] =
                        [FirstSeenObject(rrf_lists, rrf_out'[i].chunk_id)
                            EXCEPT !.similarity = rrf_out'[i].similarity]
                 /\ rrf_out'[i].similarity =
                        RRFOverLists(RRFEmpty, rrf_lists, 1, RRF_K)
                            .rrf_scores[rrf_out'[i].chunk_id]]_vars

\* a chunk that the text channel ranks first and the vector channel second
\* comes back as the vector channel's object, with the sum of both
\* contributions as its score
C31_Witness ==
    /\ rrf_pc = "returned"
    /\ Len(rrf_lists[1]) >= 2
    /\ Len(rrf_lists[2]) >= 1
    /\ rrf_lists[1][1].chunk_id # rrf_lists[1][2].chunk_id
    /\ rrf_lists[2][1].chunk_id = rrf_lists[1][2].chunk_id
    /\ \E i \in 1..Len(rrf_out) :
           /\ rrf_out[i].chunk_id = rrf_lists[2][1].chunk_id
           /\ rrf_out[i].metadata = <<"vector", 1>>
           /\ rrf_out[i].similarity = RRFContribution(RRF_K, 1) + RRFContribution(RRF_K, 0)
           /\ rrf_out[i].similarity # rrf_lists[1][2].similarity

\* the call hybrid_search makes to a channel: fetch_count is twice the
\* match_count asked for (the default when none is), held to the maximum
ExpectedCall(channel) ==
    [channel |-> channel,
     match_count |-> 2 * Min(IF h_match_count = None THEN DefaultMatchCount
                             ELSE h_match_count, MaxMatchCount),
     source_filter |-> h_filter]

\* C32: on its normal path hybrid_search calls the vector channel and the
\* text channel once each, both with fetch_count = 2 x (match_count clamped
\* to the maximum) and the same source_filter, and both are started before
\* the result of either is awaited.
C32_BothChannelsOnce ==
    /\ (sem_status = "idle") <=> (txt_status = "idle")
    /\ (sem_status = "done" \/ txt_status = "done") =>
           /\ Len(h_calls) >= 2
           /\ h_calls[1] = ExpectedCall("semantic")
           /\ h_calls[2] = ExpectedCall("text")
    /\ (h_pc = "done" /\ h_path \in {"fused", "both_empty"}) =>
           h_calls = <<ExpectedCall("semantic"), ExpectedCall("text")>>

\* a request for more than the maximum, with a source filter, that ends on
\* the normal path with fused results of both channels
C32_Witness ==
    /\ h_pc = "done"
    /\ h_path = "fused"
    /\ h_match_count > MaxMatchCount
    /\ h_filter # "None"
    /\ sem_results # <<>>
    /\ txt_results # <<>>
    /\ h_calls[1].match_count = 2 * MaxMatchCount
    /\ h_calls[2].match_count = 2 * MaxMatchCount

\* what the vector channel hands over when it takes its count argument as
\* it is given: the top `limit` hits, the source filter, then [:n]
SemanticAsAsked(n, source_filter, hits) ==
    LET limit == IF source_filter # "None" THEN n * 3 ELSE n
    IN  Take(SourceFiltered(ResultsOf("vector", Take(hits, limit)), source_filter), n)

\* C33: the over-fetch hybrid_search asks for is effective: the vector
\* channel, when it answers, hands fusion as many candidates as a request
\* for fetch_count = 2 x match_count results yields on its index; its own
\* clamping of the count does not reduce them.
C33_OverFetchEffective ==
    (h_path # "fallback" /\ sem_status = "done" /\ sem_results # <<>>) =>
        Len(sem_results) =
            Len(SemanticAsAsked(h_calls[1].match_count, h_calls[1].source_filter,
                                vec_hits))

\* C34: the list hybrid_search returns is the same whichever channel ends
\* first: on the fused path it is the fusion of the two channel outputs
\* with the vector channel's list as the first list, cut to match_count,
\* so that a chunk both channels returned is the vector channel's object
\* and, of two chunks with equal scores, the one first seen in the vector
\* channel's list comes first.
C34_InterleavingIndependent ==
    (h_pc = "done" /\ h_path = "fused") =>
        /\ h_result =
               Take(reciprocal_rank_fusion(<<sem_results, txt_results>>, RRF_K),
                    Min(IF h_match_count = None THEN DefaultMatchCount
                        ELSE h_match_count, MaxMatchCount))
        /\ \A i \in 1..Len(h_result) :
               h_result[i].chunk_id \in IdsIn(sem_results) =>
                   h_result[i].metadata[1] = "vector"
        /\ \A i, j \in 1..Len(h_result) :
               (/\ i < j
                /\ h_result[i].similarity = h_result[j].similarity
                /\ h_result[j].metadata[1] = "vector") =>
                   h_result[i].metadata[1] = "vector"

\* the text channel ended first; its best hit and the vector channel's best
\* hit, two chunks, have equal scores, and the vector channel's comes first
C34_Witness ==
    /\ h_pc = "done"
    /\ h_path = "fused"
    /\ h_finished = <<"text", "semantic">>
    /\ Len(h_result) = 2
    /\ h_result[1].metadata = <<"vector", 0>>
    /\ h_result[2].metadata = <<"text", 0>>
    /\ h_result[1].similarity = h_result[2].similarity

\* the answers of the catalog that hold a book for the filename
AnswersWithBook == { a \in CatalogAnswers : a.ok /\ MatchedId(a.books) # NoBook }

\* C35: a catalog lookup that finds the book and whose write of the cache
\* file fails still enters filename -> id in the in-memory cache and
\* returns the id; no error reaches the caller (the formatter goes on with
\* the link), and the file keeps what it held.
C35_SaveFailureKeepsUpdate ==
    [][/\ \A answer \in AnswersWithBook :
             LookupResume(answer, FALSE) =>
                 /\ o_file \in DOMAIN k_cache'
                 /\ k_cache'[o_file] = MatchedId(answer.books)
                 /\ o_result' = MatchedId(answer.books)
                 /\ o_answer' = "found"
                 /\ k_disk' = k_disk
       /\ \A answer \in AnswersWithBook :
             (FormatResume(answer, FALSE) /\ f_pc = "first_lookup") =>
                 /\ f_results[f_i].document_source \in DOMAIN k_cache'
                 /\ k_cache'[f_results[f_i].document_source] = MatchedId(answer.books)
                 /\ f_lookups'[f_i] = "found"
                 /\ k_disk' = k_disk]_vars

\* a lookup has returned the id of a book that is in the in-memory cache
\* and not in the cache file
C35_Witness ==
    /\ o_pc = "done"
    /\ o_answer = "found"
    /\ o_file \in DOMAIN k_cache
    /\ o_file \notin DOMAIN k_disk
    /\ o_result = k_cache[o_file]
    /\ o_result # NoBook

-----------------------------------------------------------------------------
(* Properties of get_source_url_sync (checked under SpecSync)              *)

\* the deep link to a page of a book (to page 1 without a page number)
DeepLink(book_id, page_number) ==
    get_page_url(book_id, IF page_number # NoPage THEN page_number ELSE 1)

\* the link for the exact filename if it is cached, otherwise for
\* filename + '.pdf' if that is cached and the filename lacks the
\* extension, otherwise no URL
CacheOnlyUrl(cache, filename, page_number) ==
    IF filename \in DOMAIN cache THEN DeepLink(cache[filename], page_number)
    ELSE IF ~IsPdf(filename) /\ filename \o ".pdf" \in DOMAIN cache
         THEN DeepLink(cache[filename \o ".pdf"], page_number)
         ELSE NoUrl

\* a call of get_source_url_sync sends no request and leaves the cache and
\* the cache file as they are
SyncCallReadsOnly ==
    \A filename \in SyncFiles, page_number \in SyncPages :
        SyncCall(filename, page_number) =>
            UNCHANGED <<k_cache, k_disk, k_requests>>

\* when get_book_id has returned the id of a book (from the cache or from
\* the catalog, which it then cached), get_source_url_sync gives for the
\* filename and every page the URL get_source_url builds from that id
AgreesWithAsync ==
    (o_pc = "done" /\ o_result # NoBook) =>
        \A page_number \in SyncPages :
            KomgaClient_get_source_url_sync(k_configured, k_cache, o_file, page_number)
                = get_source_url(o_result, page_number)

C37_MapEntriesWellFormed ==
    [][/\ \A key \in DOMAIN citation_map' :
             /\ IsPdf(key[1])
             /\ key[1] \in DOMAIN k_cache'
             /\ citation_map'[key] = get_page_url(k_cache'[key[1]], key[2])
       /\ DOMAIN citation_map \subseteq DOMAIN citation_map']_vars

\* the Slack link <url|text>
SlackLink(url, text) == <<"<">> \o url \o <<"|">> \o text \o <<">">>

\* the generated text still cites page 42 of G.pdf after the think and tool
\* filters, at its start or after a space, and the citation map of the
\* request has that page
CitedInMap ==
    /\ \/ MatchAt(filter_response(p_response), FragCitation, 1)
       \/ Contains(filter_response(p_response), <<" ">> \o FragCitation)
    /\ <<<<"G", ".", "p", "d", "f">>, 42>> \in DOMAIN p_map

\* C38: in the reply to a mention, a generated citation whose (filename,
\* first page) is in the citation map filled in while answering the request
\* is delivered as the link of the map
C38_CitationDeliveredAsLink ==
    (p_pc = "replied" /\ CitedInMap)
        => Contains(p_said, SlackLink(p_map[<<<<"G", ".", "p", "d", "f">>, 42>>],
                                      FragCitation))

\* a text with its code blocks and inline code put aside
OutsideCode(text) == ProtectInlineCode(ProtectCodeBlocks(text).text).text

\* the positions of the list markers of a text: a '-' or a '*' at the start
\* of a line, a space after it
ListMarkers(text) ==
    { i \in 1..Len(text) :
        LineStart(text, i) /\ At(text, i) \in {"-", "*"} /\ At(text, i + 1) = " " }

\* the positions of the bullet glyphs of a text
BulletGlyphs(text) == { i \in 1..Len(text) : text[i] = Bullet }

\* the text between the markers of a strong emphasis **x** or __x__ that is
\* the whole text (x not empty and, outside code, without the character of
\* the marker); <<>> for any other text
StrongText(text) ==
    IF /\ Len(text) >= 5
       /\ \E c \in {"*", "_"} :
             /\ MatchAt(text, <<c, c>>, 1)
             /\ MatchAt(text, <<c, c>>, Len(text) - 1)
             /\ \A i \in 3..(Len(OutsideCode(text)) - 2) : OutsideCode(text)[i] # c
    THEN SubSeq(text, 3, Len(text) - 2)
    ELSE <<>>

\* the text opens with a heading: '# ' and a character of its title
OpensWithHeading(text) ==
    MatchAt(text, <<"#", " ">>, 1) /\ At(text, 3) \notin (Whitespace \cup {""})

\* C39: the italic conversion of markdown_to_slack never applies to an
\* asterisk of a strong emphasis, of a heading or of a list marker: a text
\* **x** or __x__ comes out between two asterisks, a heading comes out
\* opening with an asterisk, and every list marker at the start of
\* a line outside code comes out as a bullet glyph
C39_ItalicSparesBoldAndBullets ==
    m_pc = "converted" =>
        /\ StrongText(m_text) # <<>>
              => At(m_out, 1) = "*" /\ At(m_out, Len(m_out)) = "*" /\ Len(m_out) >= 3
        /\ OpensWithHeading(m_text) => At(m_out, 1) = "*"
        /\ Cardinality(BulletGlyphs(m_out)) >= Cardinality(ListMarkers(OutsideCode(m_text)))

\* t is what is left of s when messages are dropped from its front
IsSuffixOf(t, s) ==
    Len(t) <= Len(s) /\ t = SubSeq(s, Len(s) - Len(t) + 1, Len(s))

\* C40: under every interleaving of save_messages and trim_history on one
\* conversation, the stored history is the messages whose save has
\* completed, in their order, less only messages older than the keep_count
\* most recent ones; and a trim_history that writes leaves the keep_count
\* most recent of them
C40_TrimDropsOnlyOldest ==
    /\ [](/\ IsSuffixOf(c_doc.messages, c_saved)
          /\ Len(c_doc.messages) >= Min(KeepCount, Len(c_saved)))
    /\ [][\A h \in Handlers :
             TrimHistoryWrites(h, KeepCount) => c_doc'.messages = LastOf(c_saved, KeepCount)]_vars

=============================================================================
